---- MODULE Spec2Model ----
(***************************************************************************)
(* Locator inference and test-flow synthesis of the DOM analysis service   *)
(* (analyzeDomAndGenerateSchema and its helpers), the framework routes of  *)
(* the persistence service, the generate run of the application and the    *)
(* PyTest file generator.                                                  *)
(*                                                                         *)
(* Strings are sequences of one-character strings, so that the regular     *)
(* expressions, substring tests and selector syntax of the code are        *)
(* computed and not assumed.  A document is the sequence of the element    *)
(* nodes below <body> in document order; node 0 is <body> itself.  A       *)
(* node's own text is its first text-node child and precedes its element   *)
(* children.  Attribute values of the model contain no whitespace other    *)
(* than the blank, no backslash and no combinator characters.              *)
(***************************************************************************)
EXTENDS Integers, Sequences, FiniteSets, TLC

\* The analysis of one document.
VARIABLES doc, url, title, pc, idx, derivedName, elements, tests, locs, earlier

\* The persistence service: its tables, the id and the clock of the next
\* write, the update request in flight and the last response sent.
VARIABLES prisma, nextId, now, upd, res

\* The application: the React state of App, the run of handleAiGenerate in
\* progress and the files of the preview.
VARIABLES project, activeFrameworkId, frameworkName, savedFrameworks, aiUrls,
          isGenerating, activeTab, localStorage, gen, previewFiles

analysisVars == <<doc, url, title, pc, idx, derivedName, elements, tests, locs, earlier>>

serviceVars == <<prisma, nextId, now, upd, res>>

appVars == <<project, activeFrameworkId, frameworkName, savedFrameworks, aiUrls,
             isGenerating, activeTab, localStorage, gen, previewFiles>>

vars == <<analysisVars, serviceVars, appVars>>

(***************************************************************************)
(* Strings                                                                 *)
(***************************************************************************)
Digits == {"0", "1", "2", "3", "4", "5", "6", "7", "8", "9"}

DigitSeq == <<"0", "1", "2", "3", "4", "5", "6", "7", "8", "9">>

UpperSeq == <<"A", "B", "C", "D", "E", "F", "G", "H", "I", "J", "K", "L", "M", "N", "O", "P", "Q", "R", "S", "T", "U", "V", "W", "X", "Y", "Z">>

LowerSeq == <<"a", "b", "c", "d", "e", "f", "g", "h", "i", "j", "k", "l", "m", "n", "o", "p", "q", "r", "s", "t", "u", "v", "w", "x", "y", "z">>

Range(s) == { s[i] : i \in DOMAIN s }

IsDigit(c) == c \in Digits

IsUpper(c) == c \in Range(UpperSeq)

IsLower(c) == c \in Range(LowerSeq)

IsAlnum(c) == IsDigit(c) \/ IsUpper(c) \/ IsLower(c)

IsSpace(c) == c \in {" ", "\t", "\n"}

Min(a, b) == IF a < b THEN a ELSE b

IndexIn(c, s) == CHOOSE i \in DOMAIN s : s[i] = c

toLowerChar(c) == IF IsUpper(c) THEN LowerSeq[IndexIn(c, UpperSeq)] ELSE c

toUpperChar(c) == IF IsLower(c) THEN UpperSeq[IndexIn(c, LowerSeq)] ELSE c

toLowerCase(s) == [i \in DOMAIN s |-> toLowerChar(s[i])]

toUpperCase(s) == [i \in DOMAIN s |-> toUpperChar(s[i])]

\* String.prototype.substring(from, to) with 0-based, end-exclusive indices.
substring(s, from, to) == SubSeq(s, from + 1, Min(to, Len(s)))

\* String.prototype.includes
includes(s, sub) ==
    \E i \in 1..(Len(s) - Len(sub) + 1) : SubSeq(s, i, i + Len(sub) - 1) = sub

endsWith(s, suf) ==
    Len(s) >= Len(suf) /\ SubSeq(s, Len(s) - Len(suf) + 1, Len(s)) = suf

\* The decimal digits of a natural number.
RECURSIVE NatToString(_)
NatToString(n) ==
    IF n < 10 THEN <<DigitSeq[n + 1]>>
    ELSE NatToString(n \div 10) \o <<DigitSeq[(n % 10) + 1]>>

\* s cut at every character satisfying the separator test; empty pieces kept.
RECURSIVE SplitAt(_, _)
SplitAt(s, seps) ==
    IF \A i \in DOMAIN s : s[i] \notin seps THEN <<s>>
    ELSE LET k == CHOOSE i \in DOMAIN s :
                      s[i] \in seps /\ \A j \in 1..(i - 1) : s[j] \notin seps
         IN  <<SubSeq(s, 1, k - 1)>> \o SplitAt(SubSeq(s, k + 1, Len(s)), seps)

\* text.replace(/\s+/g, ' '): every run of whitespace becomes one blank.
RECURSIVE CollapseSpace(_)
CollapseSpace(s) ==
    IF s = <<>> THEN <<>>
    ELSE IF IsSpace(s[1])
         THEN IF Len(s) > 1 /\ IsSpace(s[2]) THEN CollapseSpace(Tail(s))
              ELSE <<" ">> \o CollapseSpace(Tail(s))
         ELSE <<s[1]>> \o CollapseSpace(Tail(s))

\* String.prototype.trim
RECURSIVE trim(_)
trim(s) ==
    IF s = <<>> THEN <<>>
    ELSE IF IsSpace(s[1]) THEN trim(Tail(s))
    ELSE IF IsSpace(s[Len(s)]) THEN trim(SubSeq(s, 1, Len(s) - 1))
    ELSE s

cleanText(text) == IF text = <<>> THEN <<>> ELSE trim(CollapseSpace(text))

\* XPath normalize-space(): strips leading and trailing whitespace and
\* replaces every run of whitespace by one blank.
RECURSIVE StripLeft(_)
StripLeft(s) == IF s # <<>> /\ IsSpace(s[1]) THEN StripLeft(Tail(s)) ELSE s

RECURSIVE XPathWords(_)
XPathWords(s) ==
    LET t == StripLeft(s)
    IN  IF t = <<>> THEN <<>>
        ELSE LET n == IF \E i \in DOMAIN t : IsSpace(t[i])
                      THEN (CHOOSE i \in DOMAIN t :
                               IsSpace(t[i]) /\ \A j \in 1..(i - 1) : ~IsSpace(t[j])) - 1
                      ELSE Len(t)
             IN  <<SubSeq(t, 1, n)>> \o XPathWords(SubSeq(t, n + 1, Len(t)))

RECURSIVE JoinWith(_, _)
JoinWith(ws, sep) ==
    IF ws = <<>> THEN <<>>
    ELSE IF Len(ws) = 1 THEN ws[1]
    ELSE ws[1] \o sep \o JoinWith(Tail(ws), sep)

normalizeSpace(s) == JoinWith(XPathWords(s), <<" ">>)

(***************************************************************************)
(* The document                                                            *)
(***************************************************************************)
BODY == 0

NodesOf(d) == 1..Len(d)

\* Element.getAttribute: an absent attribute and an empty one are both falsy.
getAttribute(el, a) == IF a \in DOMAIN el.attrs THEN el.attrs[a] ELSE <<>>

\* Node.textContent: the text of the node and of its descendants, in order.
RECURSIVE textContent(_, _), ChildText(_, _, _)
textContent(d, n) ==
    (IF n = BODY THEN <<>> ELSE d[n].text) \o ChildText(d, n, n + 1)
ChildText(d, n, k) ==
    IF k > Len(d) THEN <<>>
    ELSE (IF d[k].parent = n THEN textContent(d, k) ELSE <<>>) \o ChildText(d, n, k + 1)

RECURSIVE IsDescendant(_, _, _)
IsDescendant(d, n, a) ==
    n # BODY /\ (d[n].parent = a \/ IsDescendant(d, d[n].parent, a))

\* The tokens of a class attribute.
ClassTokens(cls) == SelectSeq(SplitAt(cls, {" ", "\t", "\n"}), LAMBDA c : c # <<>>)

(***************************************************************************)
(* CSS selectors as document.querySelectorAll parses and matches them      *)
(***************************************************************************)
IsIdentChar(c) == IsAlnum(c) \/ c \in {"-", "_"}

\* A CSS identifier.
CssIdent(s) ==
    /\ s # <<>>
    /\ \A i \in DOMAIN s : IsIdentChar(s[i])
    /\ ~IsDigit(s[1])
    /\ ~(s[1] = "-" /\ (Len(s) = 1 \/ IsDigit(s[2])))

\* prefix followed by s is a compound selector when s is a chain of
\* identifiers joined by ".": "#a.b" selects id a with class b, ".a.b" both
\* classes.  Anything else the parser rejects with a SyntaxError.
CompoundValid(s) == \A p \in Range(SplitAt(s, {"."})) : CssIdent(p)

\* document.querySelectorAll(`#${id}`)
IdSelectorValid(id) == CompoundValid(id)

IdSelectorMatches(d, id) ==
    LET parts == SplitAt(id, {"."})
    IN  { n \in NodesOf(d) :
            /\ getAttribute(d[n], <<"i", "d">>) = parts[1]
            /\ \A k \in 2..Len(parts) :
                   parts[k] \in Range(ClassTokens(getAttribute(d[n], <<"c", "l", "a", "s", "s">>))) }

\* A double-quoted CSS string holding val: an unescaped quote ends it early
\* and what follows is a syntax error.
QuotedValid(val) == \A i \in DOMAIN val : val[i] # "\""

\* document.querySelectorAll(`[name="${name}"]`)
NameSelectorMatches(d, name) ==
    { n \in NodesOf(d) : getAttribute(d[n], <<"n", "a", "m", "e">>) = name }

\* document.querySelectorAll(`${tag}[${attr}="${val}"]`)
AttrSelectorMatches(d, tag, attr, val) ==
    { n \in NodesOf(d) : d[n].tag = tag /\ attr \in DOMAIN d[n].attrs
                         /\ d[n].attrs[attr] = val }

\* document.querySelectorAll(`.${c}`)
ClassSelectorValid(c) == CompoundValid(c)

ClassSelectorMatches(d, c) ==
    { n \in NodesOf(d) :
        \A p \in Range(SplitAt(c, {"."})) :
            p \in Range(ClassTokens(getAttribute(d[n], <<"c", "l", "a", "s", "s">>))) }

\* document.getElementsByTagName(tag)
getElementsByTagName(d, tag) == { n \in NodesOf(d) : d[n].tag = tag }

(***************************************************************************)
(* XPath expressions as document.evaluate parses and matches them          *)
(***************************************************************************)
\* A single-quoted XPath literal holding s: a quote inside s ends the
\* literal early and the expression does not parse.
LiteralValid(s) == \A i \in DOMAIN s : s[i] # "'"

\* //tag[normalize-space()='text']
TextEqMatches(d, tag, text) ==
    { n \in NodesOf(d) : d[n].tag = tag /\ normalizeSpace(textContent(d, n)) = text }

\* //a[contains(text(), 'part')]: text() is the node-set of the text-node
\* children, and contains() takes the string value of the first of them.
ContainsTextMatches(d, part) ==
    { n \in NodesOf(d) : d[n].tag = <<"a">> /\ d[n].text # <<>> /\ includes(d[n].text, part) }

\* anchor/following-sibling::tag
FollowingSiblingMatches(d, anchors, tag) ==
    { n \in NodesOf(d) :
        d[n].tag = tag /\ \E a \in anchors : d[n].parent = d[a].parent /\ n > a }

\* anchor/..//tag
ParentDescendantMatches(d, anchors, tag) ==
    { n \in NodesOf(d) :
        d[n].tag = tag /\ \E a \in anchors : IsDescendant(d, n, d[a].parent) }

\* The k-th same-tag child of each node of ctx (k = 0: every such child).
StepMatches(d, ctx, step) ==
    { n \in NodesOf(d) :
        /\ d[n].tag = step.tag
        /\ d[n].parent \in ctx
        /\ step.ix # 0 =>
             Cardinality({ m \in NodesOf(d) : m <= n /\ d[m].parent = d[n].parent
                                              /\ d[m].tag = d[n].tag }) = step.ix }

RECURSIVE PathMatches(_, _, _)
PathMatches(d, ctx, steps) ==
    IF steps = <<>> THEN ctx
    ELSE PathMatches(d, StepMatches(d, ctx, steps[1]), Tail(steps))

\* The nodes an XPath value of the model selects; none when it does not parse.
XPathMatches(d, v) ==
    CASE v.form = "textEq" ->
            IF LiteralValid(v.text) THEN TextEqMatches(d, v.tag, v.text) ELSE {}
      [] v.form = "indexed" ->
            IF LiteralValid(v.text)
            THEN { n \in TextEqMatches(d, v.tag, v.text) :
                     Cardinality({ m \in TextEqMatches(d, v.tag, v.text) : m <= n }) = v.ix }
            ELSE {}
      [] v.form = "following" ->
            IF LiteralValid(v.text)
            THEN FollowingSiblingMatches(d, TextEqMatches(d, v.atag, v.text), v.tag)
            ELSE {}
      [] v.form = "within" ->
            IF LiteralValid(v.text)
            THEN ParentDescendantMatches(d, TextEqMatches(d, v.atag, v.text), v.tag)
            ELSE {}
      [] v.form = "abs" ->
            IF v.id = <<>> THEN PathMatches(d, {BODY}, v.steps)
            ELSE IF QuotedValid(v.id)
            THEN PathMatches(d, { n \in NodesOf(d) : getAttribute(d[n], <<"i", "d">>) = v.id },
                             v.steps)
            ELSE {}
      [] OTHER -> {}

\* evaluateXpath: the number of nodes matched, 0 when evaluation throws.
evaluateXpath(d, v) == Cardinality(XPathMatches(d, v))

(***************************************************************************)
(* Locators                                                                *)
(*                                                                         *)
(* A locator value is kept as the syntax tree of the string the code       *)
(* builds (Render gives the string); a plain string value has form "str".  *)
(***************************************************************************)
ATTRIBUTE_PRIORITY ==
    << <<"i", "d">>, <<"n", "a", "m", "e">>, <<"d", "a", "t", "a", "-", "t", "e", "s", "t", "i", "d">>, <<"d", "a", "t", "a", "-", "t", "e", "s", "t">>, <<"d", "a", "t", "a", "-", "c", "y">>, <<"p", "l", "a", "c", "e", "h", "o", "l", "d", "e", "r">>,
       <<"a", "r", "i", "a", "-", "l", "a", "b", "e", "l">>, <<"t", "i", "t", "l", "e">>, <<"a", "l", "t">>, <<"c", "l", "a", "s", "s">> >>

INTERACTIVE_TAGS == << <<"i", "n", "p", "u", "t">>, <<"b", "u", "t", "t", "o", "n">>, <<"a">>, <<"s", "e", "l", "e", "c", "t">>, <<"t", "e", "x", "t", "a", "r", "e", "a">> >>

NoValue == [form |-> "none"]

Str(s) == [form |-> "str", s |-> s]

Locator(type, value, score) == [type |-> type, value |-> value, score |-> score]

\* No strategy of a tier applied.
NoLocator == Locator("none", NoValue, 0)

\* The call ended in an exception (a SyntaxError of querySelectorAll).
Thrown == Locator("throw", NoValue, 0)

TextEq(tag, text) == [form |-> "textEq", tag |-> tag, text |-> text]

\* The string a locator value stands for.
RECURSIVE RenderSteps(_)
RenderSteps(steps) ==
    IF steps = <<>> THEN <<>>
    ELSE <<"/">> \o steps[1].tag
         \o (IF steps[1].ix = 0 THEN <<>> ELSE <<"[">> \o NatToString(steps[1].ix) \o <<"]">>)
         \o RenderSteps(Tail(steps))

RenderTextEq(tag, text) == <<"/", "/">> \o tag \o <<"[", "n", "o", "r", "m", "a", "l", "i", "z", "e", "-", "s", "p", "a", "c", "e", "(", ")", "=", "'">> \o text \o <<"'", "]">>

Render(v) ==
    CASE v.form = "str" -> v.s
      [] v.form = "cssAttr" -> v.tag \o <<"[">> \o v.attr \o <<"=", "\"">> \o v.val \o <<"\"", "]">>
      [] v.form = "textEq" -> RenderTextEq(v.tag, v.text)
      [] v.form = "indexed" ->
            <<"(">> \o RenderTextEq(v.tag, v.text) \o <<")", "[">> \o NatToString(v.ix) \o <<"]">>
      [] v.form = "following" ->
            RenderTextEq(v.atag, v.text) \o <<"/", "f", "o", "l", "l", "o", "w", "i", "n", "g", "-", "s", "i", "b", "l", "i", "n", "g", ":", ":">> \o v.tag
      [] v.form = "within" -> RenderTextEq(v.atag, v.text) \o <<"/", ".", ".", "/", "/">> \o v.tag
      [] v.form = "abs" ->
            (IF v.id = <<>> THEN <<"/", "h", "t", "m", "l", "/", "b", "o", "d", "y">> ELSE <<"/", "/", "*", "[", "@", "i", "d", "=", "\"">> \o v.id \o <<"\"", "]">>)
            \o RenderSteps(v.steps)
      [] OTHER -> <<>>

\* getAbsoluteXPath: an id-based path as soon as the element or an ancestor
\* carries an id, otherwise /html/body followed by one step per level, with
\* the 1-based same-tag sibling index when the tag is not alone.
RECURSIVE getAbsoluteXPath(_, _)
getAbsoluteXPath(d, n) ==
    IF n = BODY THEN [form |-> "abs", id |-> <<>>, steps |-> <<>>]
    ELSE IF getAttribute(d[n], <<"i", "d">>) # <<>>
    THEN [form |-> "abs", id |-> getAttribute(d[n], <<"i", "d">>), steps |-> <<>>]
    ELSE LET sameTagSiblings ==
                 { m \in NodesOf(d) : d[m].parent = d[n].parent /\ d[m].tag = d[n].tag }
             ix == Cardinality({ m \in sameTagSiblings : m < n })
             up == getAbsoluteXPath(d, d[n].parent)
         IN  [up EXCEPT !.steps =
                 Append(@, [tag |-> d[n].tag,
                            ix |-> IF Cardinality(sameTagSiblings) = 1 THEN 0 ELSE ix + 1])]

\* generateRelativeXPath, strategy 1: the nearest preceding sibling whose
\* text is a unique anchor with exactly one following sibling of the tag.
AnchorFollowing(d, n, m) ==
    [form |-> "following", atag |-> d[m].tag,
     text |-> cleanText(textContent(d, m)), tag |-> d[n].tag]

PrecedingAnchorOk(d, n, m) ==
    LET text == cleanText(textContent(d, m))
    IN  /\ text # <<>> /\ Len(text) > 2
        /\ evaluateXpath(d, TextEq(d[m].tag, text)) = 1
        /\ evaluateXpath(d, AnchorFollowing(d, n, m)) = 1

\* generateRelativeXPath, strategy 2: the first other child of the parent
\* whose text is a unique anchor with exactly one node of the tag below the
\* parent.
AnchorWithin(d, n, m) ==
    [form |-> "within", atag |-> d[m].tag,
     text |-> cleanText(textContent(d, m)), tag |-> d[n].tag]

ParentAnchorOk(d, n, m) ==
    LET text == cleanText(textContent(d, m))
    IN  /\ text # <<>> /\ Len(text) > 2 /\ Len(text) < 50
        /\ evaluateXpath(d, TextEq(d[m].tag, text)) = 1
        /\ evaluateXpath(d, AnchorWithin(d, n, m)) = 1

NoRelative == [value |-> NoValue, score |-> 0]

generateRelativeXPath(d, n) ==
    LET before == { m \in NodesOf(d) : d[m].parent = d[n].parent /\ m < n
                                       /\ PrecedingAnchorOk(d, n, m) }
        others == { m \in NodesOf(d) : d[m].parent = d[n].parent /\ m # n
                                       /\ ParentAnchorOk(d, n, m) }
    IN  IF before # {}
        THEN [value |-> AnchorFollowing(d, n, CHOOSE m \in before : \A k \in before : k <= m),
              score |-> 95]
        ELSE IF others # {}
        THEN [value |-> AnchorWithin(d, n, CHOOSE m \in others : \A k \in others : m <= k),
              score |-> 92]
        ELSE NoRelative

\* The id strategy without the test for generated ids.
IdStrategy_AnyId(d, n) ==
    LET id == getAttribute(d[n], <<"i", "d">>)
    IN  IF id # <<>>
        THEN IF ~IdSelectorValid(id) THEN Thrown
             ELSE IF Cardinality(IdSelectorMatches(d, id)) = 1
             THEN Locator("id", Str(id), 100)
             ELSE NoLocator
        ELSE NoLocator

\* generateLocator, 1: the id, unless it looks generated.
IdStrategy(d, n) ==
    LET id == getAttribute(d[n], <<"i", "d">>)
    IN  IF id # <<>> /\ ~(\E i \in DOMAIN id : IsDigit(id[i]))
           /\ ~(includes(id, <<"e", "x", "t">>) \/ includes(id, <<"g", "e", "n">>))
        THEN IF ~IdSelectorValid(id) THEN Thrown
             ELSE IF Cardinality(IdSelectorMatches(d, id)) = 1
             THEN Locator("id", Str(id), 100)
             ELSE NoLocator
        ELSE NoLocator

\* generateLocator, 2: the name attribute.
NameStrategy(d, n) ==
    LET name == getAttribute(d[n], <<"n", "a", "m", "e">>)
    IN  IF name # <<>>
        THEN IF ~QuotedValid(name) THEN Thrown
             ELSE IF Cardinality(NameSelectorMatches(d, name)) = 1
             THEN Locator("name", Str(name), 95)
             ELSE NoLocator
        ELSE NoLocator

\* generateLocator, 3: the exact text of a link.
LinkTextStrategy(d, n) ==
    LET text == cleanText(textContent(d, n))
    IN  IF d[n].tag = <<"a">> /\ text # <<>> /\ Len(text) < 60
           /\ evaluateXpath(d, TextEq(<<"a">>, text)) = 1
        THEN Locator("linkText", Str(text), 90)
        ELSE NoLocator

\* generateLocator, 4: the first 15 characters of the text of a link.
PartialLinkTextStrategy(d, n) ==
    LET text == cleanText(textContent(d, n))
        partialText == substring(text, 0, 15)
    IN  IF d[n].tag = <<"a">> /\ text # <<>> /\ Len(text) > 5
           /\ LiteralValid(partialText)
           /\ Cardinality(ContainsTextMatches(d, partialText)) = 1
        THEN Locator("partialLinkText", Str(partialText), 85)
        ELSE NoLocator

\* generateLocator, 5: the loop over ATTRIBUTE_PRIORITY from position k.
RECURSIVE CssStrategy(_, _, _)
CssStrategy(d, n, k) ==
    IF k > Len(ATTRIBUTE_PRIORITY) THEN NoLocator
    ELSE LET attr == ATTRIBUTE_PRIORITY[k]
             val == getAttribute(d[n], attr)
         IN  IF attr \in {<<"i", "d">>, <<"c", "l", "a", "s", "s">>, <<"n", "a", "m", "e">>} \/ val = <<>>
             THEN CssStrategy(d, n, k + 1)
             ELSE IF ~QuotedValid(val) THEN Thrown
             ELSE IF Cardinality(AttrSelectorMatches(d, d[n].tag, attr, val)) = 1
             THEN Locator("css", [form |-> "cssAttr", tag |-> d[n].tag,
                                  attr |-> attr, val |-> val], 80)
             ELSE CssStrategy(d, n, k + 1)

\* generateLocator, 6: the first class, generic ones left out, that one
\* node carries; a class that is no selector is skipped.
NoiseClasses == { <<"b", "t", "n">>, <<"f", "o", "r", "m", "-", "c", "o", "n", "t", "r", "o", "l">>, <<"i", "n", "p", "u", "t">> }

ClassNameStrategy(d, n) ==
    LET classes == SelectSeq(SplitAt(getAttribute(d[n], <<"c", "l", "a", "s", "s">>), {" ", "\t", "\n"}),
                             LAMBDA c : c # <<>> /\ c \notin NoiseClasses)
        hits == { k \in DOMAIN classes :
                    /\ ClassSelectorValid(classes[k])
                    /\ Cardinality(ClassSelectorMatches(d, classes[k])) = 1 }
    IN  IF hits # {}
        THEN Locator("className", Str(classes[CHOOSE k \in hits : \A j \in hits : k <= j]), 75)
        ELSE NoLocator

\* generateLocator, 7: the tag, when the document holds one such element.
TagNameStrategy(d, n) ==
    IF Cardinality(getElementsByTagName(d, d[n].tag)) = 1
    THEN Locator("tagName", Str(d[n].tag), 70)
    ELSE NoLocator

\* The text strategy without the bounds on the length of the text.
TextXPathStrategy_AnyLength(d, n) ==
    LET text == cleanText(textContent(d, n))
        xpathExact == TextEq(d[n].tag, text)
        count == evaluateXpath(d, xpathExact)
        snapshot == XPathMatches(d, xpathExact)
    IN  IF text # <<>>
        THEN IF count = 1 THEN Locator("xpath", xpathExact, 60)
             ELSE IF count > 1 /\ n \in snapshot
             THEN Locator("xpath",
                          [form |-> "indexed", tag |-> d[n].tag, text |-> text,
                           ix |-> Cardinality({ m \in snapshot : m <= n })], 55)
             ELSE NoLocator
        ELSE NoLocator

\* The text strategy with the snapshot index i in place of i + 1.
TextXPathStrategy_ZeroBased(d, n) ==
    LET text == cleanText(textContent(d, n))
        xpathExact == TextEq(d[n].tag, text)
        count == evaluateXpath(d, xpathExact)
        snapshot == XPathMatches(d, xpathExact)
    IN  IF text # <<>> /\ Len(text) > 2 /\ Len(text) < 60
        THEN IF count = 1 THEN Locator("xpath", xpathExact, 60)
             ELSE IF count > 1 /\ n \in snapshot
             THEN Locator("xpath",
                          [form |-> "indexed", tag |-> d[n].tag, text |-> text,
                           ix |-> Cardinality({ m \in snapshot : m < n })], 55)
             ELSE NoLocator
        ELSE NoLocator

\* generateLocator, 8 A: the exact text, indexed when several nodes carry it.
TextXPathStrategy(d, n) ==
    LET text == cleanText(textContent(d, n))
        xpathExact == TextEq(d[n].tag, text)
        count == evaluateXpath(d, xpathExact)
        snapshot == XPathMatches(d, xpathExact)
    IN  IF text # <<>> /\ Len(text) > 2 /\ Len(text) < 60
        THEN IF count = 1 THEN Locator("xpath", xpathExact, 60)
             ELSE IF count > 1 /\ n \in snapshot
             THEN Locator("xpath",
                          [form |-> "indexed", tag |-> d[n].tag, text |-> text,
                           ix |-> Cardinality({ m \in snapshot : m <= n })], 55)
             ELSE NoLocator
        ELSE NoLocator

\* The relative strategy passing on the score of generateRelativeXPath.
RelativeStrategy_BuilderScore(d, n) ==
    LET relative == generateRelativeXPath(d, n)
    IN  IF relative.score # 0 THEN Locator("xpath", relative.value, relative.score)
        ELSE NoLocator

\* generateLocator, 8 B: the relative XPath, with the score of this tier.
RelativeStrategy(d, n) ==
    LET relative == generateRelativeXPath(d, n)
    IN  IF relative.score # 0 THEN Locator("xpath", relative.value, 50)
        ELSE NoLocator

\* generateLocator, 8 C: the fallback.
AbsoluteStrategy(d, n) == Locator("xpath", getAbsoluteXPath(d, n), 10)

\* The strategies with the tag tried before the classes.
StrategyResult_TagBeforeClass(d, n, t) ==
    CASE t = 1 -> IdStrategy(d, n)
      [] t = 2 -> NameStrategy(d, n)
      [] t = 3 -> LinkTextStrategy(d, n)
      [] t = 4 -> PartialLinkTextStrategy(d, n)
      [] t = 5 -> CssStrategy(d, n, 1)
      [] t = 6 -> TagNameStrategy(d, n)
      [] t = 7 -> ClassNameStrategy(d, n)
      [] t = 8 -> TextXPathStrategy(d, n)
      [] t = 9 -> RelativeStrategy(d, n)
      [] OTHER -> AbsoluteStrategy(d, n)

\* The strategies in the order the code tries them.
StrategyResult(d, n, t) ==
    CASE t = 1 -> IdStrategy(d, n)
      [] t = 2 -> NameStrategy(d, n)
      [] t = 3 -> LinkTextStrategy(d, n)
      [] t = 4 -> PartialLinkTextStrategy(d, n)
      [] t = 5 -> CssStrategy(d, n, 1)
      [] t = 6 -> ClassNameStrategy(d, n)
      [] t = 7 -> TagNameStrategy(d, n)
      [] t = 8 -> TextXPathStrategy(d, n)
      [] t = 9 -> RelativeStrategy(d, n)
      [] OTHER -> AbsoluteStrategy(d, n)

\* generateLocator: the first strategy that returns (or throws) decides.
RECURSIVE FirstFrom(_, _, _)
FirstFrom(d, n, t) ==
    LET r == StrategyResult(d, n, t)
    IN  IF r.type # "none" THEN r ELSE FirstFrom(d, n, t + 1)

generateLocator(d, n) == FirstFrom(d, n, 1)

(***************************************************************************)
(* Page naming                                                             *)
(***************************************************************************)
FirstIndex(s, set) == CHOOSE i \in DOMAIN s : s[i] \in set /\ \A j \in 1..(i - 1) : s[j] \notin set

UpTo(s, set) ==
    IF \E i \in DOMAIN s : s[i] \in set THEN SubSeq(s, 1, FirstIndex(s, set) - 1) ELSE s

RECURSIVE StripSlashes(_)
StripSlashes(s) == IF s # <<>> /\ s[1] = "/" THEN StripSlashes(Tail(s)) ELSE s

\* new URL(url) for the URLs of the model (no credentials, port, dot
\* segments or characters that are percent-encoded): a scheme is required;
\* an http(s) URL needs a host, and its pathname runs from the first "/"
\* after the host to the query or fragment.
ParseUrl(u) ==
    IF ~(\E i \in DOMAIN u : u[i] = ":") THEN [ok |-> FALSE, pathname |-> <<>>]
    ELSE LET scheme == UpTo(u, {":"})
             rest == SubSeq(u, Len(scheme) + 2, Len(u))
         IN  IF scheme = <<>> \/ ~(IsUpper(scheme[1]) \/ IsLower(scheme[1]))
                \/ \E i \in DOMAIN scheme : ~(IsAlnum(scheme[i]) \/ scheme[i] \in {"+", "-", "."})
             THEN [ok |-> FALSE, pathname |-> <<>>]
             ELSE IF toLowerCase(scheme) \in {<<"h", "t", "t", "p">>, <<"h", "t", "t", "p", "s">>}
             THEN LET afterSlashes == StripSlashes(rest)
                      host == UpTo(afterSlashes, {"/", "?", "#"})
                      path == UpTo(SubSeq(afterSlashes, Len(host) + 1, Len(afterSlashes)),
                                   {"?", "#"})
                  IN  IF host = <<>> THEN [ok |-> FALSE, pathname |-> <<>>]
                      ELSE [ok |-> TRUE, pathname |-> IF path = <<>> THEN <<"/">> ELSE path]
             ELSE [ok |-> TRUE, pathname |-> UpTo(rest, {"?", "#"})]

KeepAlnum(s) == SelectSeq(s, IsAlnum)

Capitalize(w) == IF w = <<>> THEN <<>> ELSE <<toUpperChar(w[1])>> \o Tail(w)

\* The path segments with the numbers kept.
MeaningfulSegments_KeepNumeric(pathname) ==
    SelectSeq(SplitAt(pathname, {"/"}), LAMBDA s : Len(s) > 0 /\ Len(s) < 30)

\* Strategy 1 of the page name: the last path segment that is not a number
\* and is shorter than 30 characters, its first character upper-cased and
\* the rest reduced to letters and digits.
MeaningfulSegments(pathname) ==
    SelectSeq(SplitAt(pathname, {"/"}),
              LAMBDA s : Len(s) > 0 /\ ~(\A i \in DOMAIN s : IsDigit(s[i])) /\ Len(s) < 30)

SegmentName(lastSegment) ==
    <<toUpperChar(lastSegment[1])>> \o KeepAlnum(Tail(lastSegment))

\* Strategy 2: the title before the first "-" or "|", its first three words
\* of more than two characters, capitalized and joined.
TitleName(t) ==
    LET cleanTitle == SelectSeq(trim(SplitAt(t, {"-", "|"})[1]),
                                LAMBDA c : IsAlnum(c) \/ IsSpace(c))
        words == SelectSeq(SplitAt(cleanTitle, {" ", "\t", "\n"}), LAMBDA w : Len(w) > 2)
        first == SubSeq(words, 1, Min(3, Len(words)))
    IN  JoinWith([i \in DOMAIN first |-> Capitalize(first[i])], <<>>)

\* The fallback name cut to 20 characters as on the other paths.
FallbackTitleName_Cut20(t) ==
    IF t # <<>>
    THEN (IF Len(KeepAlnum(t)) > 20 THEN substring(KeepAlnum(t), 0, 20) ELSE KeepAlnum(t))
         \o <<"P", "a", "g", "e">>
    ELSE <<"H", "o", "m", "e", "P", "a", "g", "e">>

\* The name of the page when the URL does not parse.
FallbackTitleName(t) ==
    IF t # <<>>
    THEN (IF Len(KeepAlnum(t)) > 15 THEN substring(KeepAlnum(t), 0, 15) ELSE KeepAlnum(t))
         \o <<"P", "a", "g", "e">>
    ELSE <<"H", "o", "m", "e", "P", "a", "g", "e">>

\* The page name of analyzeDomAndGenerateSchema.
DerivePageName(u, t) ==
    LET parsed == ParseUrl(u)
    IN  IF ~parsed.ok THEN FallbackTitleName(t)
        ELSE LET segs == MeaningfulSegments(parsed.pathname)
                 raw == IF Len(segs) > 0 THEN SegmentName(segs[Len(segs)])
                        ELSE IF t # <<>> THEN TitleName(t)
                        ELSE <<"H", "o", "m", "e", "P", "a", "g", "e">>
                 named == IF raw = <<>> THEN <<"H", "o", "m", "e", "P", "a", "g", "e">> ELSE raw
                 capped == IF Len(named) > 20 THEN substring(named, 0, 20) ELSE named
             IN  IF endsWith(capped, <<"P", "a", "g", "e">>) THEN capped ELSE capped \o <<"P", "a", "g", "e">>

\* derivedName.split(/(?=[A-Z])/).join('_').toLowerCase()
RECURSIVE SnakeFrom(_, _)
SnakeFrom(s, i) ==
    IF i > Len(s) THEN <<>>
    ELSE (IF i > 1 /\ IsUpper(s[i]) THEN <<"_">> ELSE <<>>)
         \o <<toLowerChar(s[i])>> \o SnakeFrom(s, i + 1)

snakePage(name) == SnakeFrom(name, 1)

(***************************************************************************)
(* Element names                                                           *)
(***************************************************************************)
RECURSIVE StripUnderscores(_)
StripUnderscores(s) ==
    IF s = <<>> THEN <<>>
    ELSE IF s[1] = "_" THEN StripUnderscores(Tail(s))
    ELSE IF s[Len(s)] = "_" THEN StripUnderscores(SubSeq(s, 1, Len(s) - 1))
    ELSE s

\* base.toLowerCase().replace(/[^a-z0-9]/g, '_').replace(/^_+|_+$/g, '')
SlugOf(base) ==
    StripUnderscores([i \in DOMAIN base |->
        LET c == toLowerChar(base[i])
        IN  IF IsLower(c) \/ IsDigit(c) THEN c ELSE "_"])

\* generateVarName; r is the value of Math.floor(Math.random() * 1000).
generateVarName(base, tag, r) ==
    (IF SlugOf(base) = <<>> THEN <<"e", "l", "e", "m", "e", "n", "t", "_">> \o NatToString(r) ELSE SlugOf(base))
    \o <<"_">> \o tag

\* The first truthy one of id, name, placeholder, text, aria-label, tagName.
nameBase(d, n) ==
    IF getAttribute(d[n], <<"i", "d">>) # <<>> THEN getAttribute(d[n], <<"i", "d">>)
    ELSE IF getAttribute(d[n], <<"n", "a", "m", "e">>) # <<>> THEN getAttribute(d[n], <<"n", "a", "m", "e">>)
    ELSE IF getAttribute(d[n], <<"p", "l", "a", "c", "e", "h", "o", "l", "d", "e", "r">>) # <<>> THEN getAttribute(d[n], <<"p", "l", "a", "c", "e", "h", "o", "l", "d", "e", "r">>)
    ELSE IF textContent(d, n) # <<>> THEN textContent(d, n)
    ELSE IF getAttribute(d[n], <<"a", "r", "i", "a", "-", "l", "a", "b", "e", "l">>) # <<>> THEN getAttribute(d[n], <<"a", "r", "i", "a", "-", "l", "a", "b", "e", "l">>)
    ELSE toUpperCase(d[n].tag)

\* Whether the name of node n is drawn at random.
NeedsRandom(d, n) == SlugOf(cleanText(nameBase(d, n))) = <<>>

ElementName(d, n, r) == generateVarName(cleanText(nameBase(d, n)), d[n].tag, r)

\* doc.querySelectorAll(INTERACTIVE_TAGS.join(', ')), in document order.
InteractiveNodes(d) ==
    SelectSeq([i \in 1..Len(d) |-> i], LAMBDA i : d[i].tag \in Range(INTERACTIVE_TAGS))

\* el.tagName === 'INPUT' && el.type === 'hidden'
IsHiddenInput(el) ==
    el.tag = <<"i", "n", "p", "u", "t">> /\ toLowerCase(getAttribute(el, <<"t", "y", "p", "e">>)) = <<"h", "i", "d", "d", "e", "n">>

(***************************************************************************)
(* Test synthesis                                                          *)
(***************************************************************************)
Step(action, value, description) ==
    [action |-> action, value |-> value, description |-> description]

NamesWith(els, words) ==
    SelectSeq(els, LAMBDA e : \E w \in words : includes(e.name, w))

\* The login test without its last step.
LoginTest_NoAssert(page, els) ==
    LET userInputs == NamesWith(els, {<<"u", "s", "e", "r">>, <<"e", "m", "a", "i", "l">>, <<"l", "o", "g", "i", "n">>})
        passInputs == NamesWith(els, {<<"p", "a", "s", "s">>})
        submitBtns == NamesWith(els, {<<"s", "u", "b", "m", "i", "t">>, <<"l", "o", "g", "i", "n">>, <<"s", "i", "g", "n", "_", "i", "n">>})
    IN  IF Len(userInputs) > 0 /\ Len(passInputs) > 0 /\ Len(submitBtns) > 0
        THEN << [name |-> <<"t", "e", "s", "t", "_">> \o snakePage(page) \o <<"_", "l", "o", "g", "i", "n", "_", "f", "l", "o", "w">>,
                 type |-> "smoke",
                 steps |-> << Step("input", "standard_user",
                                   <<"E", "n", "t", "e", "r", " ", "u", "s", "e", "r", "n", "a", "m", "e", " ", "i", "n", "t", "o", " ">> \o userInputs[1].name),
                              Step("input", "secret_sauce",
                                   <<"E", "n", "t", "e", "r", " ", "p", "a", "s", "s", "w", "o", "r", "d", " ", "i", "n", "t", "o", " ">> \o passInputs[1].name),
                              Step("click", "", <<"C", "l", "i", "c", "k", " ">> \o submitBtns[1].name) >>] >>
        ELSE <<>>

LoginTest(page, els) ==
    LET userInputs == NamesWith(els, {<<"u", "s", "e", "r">>, <<"e", "m", "a", "i", "l">>, <<"l", "o", "g", "i", "n">>})
        passInputs == NamesWith(els, {<<"p", "a", "s", "s">>})
        submitBtns == NamesWith(els, {<<"s", "u", "b", "m", "i", "t">>, <<"l", "o", "g", "i", "n">>, <<"s", "i", "g", "n", "_", "i", "n">>})
    IN  IF Len(userInputs) > 0 /\ Len(passInputs) > 0 /\ Len(submitBtns) > 0
        THEN << [name |-> <<"t", "e", "s", "t", "_">> \o snakePage(page) \o <<"_", "l", "o", "g", "i", "n", "_", "f", "l", "o", "w">>,
                 type |-> "smoke",
                 steps |-> << Step("input", "standard_user",
                                   <<"E", "n", "t", "e", "r", " ", "u", "s", "e", "r", "n", "a", "m", "e", " ", "i", "n", "t", "o", " ">> \o userInputs[1].name),
                              Step("input", "secret_sauce",
                                   <<"E", "n", "t", "e", "r", " ", "p", "a", "s", "s", "w", "o", "r", "d", " ", "i", "n", "t", "o", " ">> \o passInputs[1].name),
                              Step("click", "", <<"C", "l", "i", "c", "k", " ">> \o submitBtns[1].name),
                              Step("assert_visible", "dashboard",
                                   <<"V", "e", "r", "i", "f", "y", " ", "s", "u", "c", "c", "e", "s", "s", "f", "u", "l", " ", "l", "o", "g", "i", "n", " ", "l", "o", "c", "a", "t", "i", "o", "n">>) >>] >>
        ELSE <<>>

SearchTest(page, els) ==
    LET searchInputs == NamesWith(els, {<<"s", "e", "a", "r", "c", "h">>, <<"q", "u", "e", "r", "y">>})
    IN  IF Len(searchInputs) > 0
        THEN << [name |-> <<"t", "e", "s", "t", "_">> \o snakePage(page) \o <<"_", "s", "e", "a", "r", "c", "h">>,
                 type |-> "regression",
                 steps |-> << Step("input", "Test Item",
                                   <<"T", "y", "p", "e", " ", "s", "e", "a", "r", "c", "h", " ", "q", "u", "e", "r", "y", " ", "i", "n", " ">> \o searchInputs[1].name),
                              Step("click", "Enter", <<"S", "u", "b", "m", "i", "t", " ", "s", "e", "a", "r", "c", "h">>),
                              Step("assert_visible", "results",
                                   <<"V", "e", "r", "i", "f", "y", " ", "r", "e", "s", "u", "l", "t", "s", " ", "a", "p", "p", "e", "a", "r">>) >>] >>
        ELSE <<>>

\* The generic test with a step for every element.
BasicTest_AllElements(page, els) ==
    << [name |-> <<"t", "e", "s", "t", "_">> \o snakePage(page) \o <<"_", "b", "a", "s", "i", "c", "_", "i", "n", "t", "e", "r", "a", "c", "t", "i", "o", "n", "s">>,
        type |-> "smoke",
        steps |-> [i \in DOMAIN els |->
                     Step(IF includes(els[i].name, <<"i", "n", "p", "u", "t">>) THEN "input" ELSE "click",
                          IF includes(els[i].name, <<"i", "n", "p", "u", "t">>) THEN "test_data" ELSE "undefined",
                          <<"I", "n", "t", "e", "r", "a", "c", "t", " ", "w", "i", "t", "h", " ">> \o els[i].name)]] >>

BasicTest(page, els) ==
    LET firstFour == SubSeq(els, 1, Min(4, Len(els)))
    IN  << [name |-> <<"t", "e", "s", "t", "_">> \o snakePage(page) \o <<"_", "b", "a", "s", "i", "c", "_", "i", "n", "t", "e", "r", "a", "c", "t", "i", "o", "n", "s">>,
            type |-> "smoke",
            steps |-> [i \in DOMAIN firstFour |->
                         Step(IF includes(firstFour[i].name, <<"i", "n", "p", "u", "t">>) THEN "input" ELSE "click",
                              IF includes(firstFour[i].name, <<"i", "n", "p", "u", "t">>) THEN "test_data"
                              ELSE "undefined",
                              <<"I", "n", "t", "e", "r", "a", "c", "t", " ", "w", "i", "t", "h", " ">> \o firstFour[i].name)]] >>

\* The generic test emitted for an empty element list too.
generatedTests_BasicWhenEmpty(page, els) ==
    LET specific == LoginTest(page, els) \o SearchTest(page, els)
    IN  IF Len(specific) = 0 THEN BasicTest(page, els) ELSE specific

\* The search test emitted only when no login test was.
generatedTests_SearchUnlessLogin(page, els) ==
    LET specific == IF Len(LoginTest(page, els)) > 0 THEN LoginTest(page, els)
                    ELSE SearchTest(page, els)
    IN  IF Len(specific) = 0 /\ Len(els) > 0 THEN BasicTest(page, els) ELSE specific

generatedTests(page, els) ==
    LET specific == LoginTest(page, els) \o SearchTest(page, els)
    IN  IF Len(specific) = 0 /\ Len(els) > 0 THEN BasicTest(page, els) ELSE specific


(***************************************************************************)
(* Projects and the framework tables                                       *)
(*                                                                         *)
(* A project is the JSON body the routes receive: config, pages with       *)
(* their elements, tests with their steps.  A property the JSON leaves     *)
(* out is a field the record does not have; Undefined is the value of a    *)
(* property that is present in the type and absent from the body.  The     *)
(* client-side id of a page, element, test and step is not stored by the   *)
(* routes and is left out of the model.                                    *)
(***************************************************************************)
Undefined == <<"undefined">>

\* obj?.k
Prop(obj, k) == IF k \in DOMAIN obj THEN obj[k] ELSE Undefined

\* x || d, for a string x
OrElse(x, d) == IF x = Undefined \/ x = <<>> THEN d ELSE x

\* INITIAL_PROJECT of the application
INITIAL_PROJECT ==
    [config |-> [projectName |-> <<"M", "y", "A", "u", "t", "o", "m", "a", "t", "i", "o", "n", "P", "r", "o", "j", "e", "c", "t">>, baseUrl |-> <<"h", "t", "t", "p", "s", ":", "/", "/", "e", "x", "a", "m", "p", "l", "e", ".", "c", "o", "m">>,
                 browser |-> <<"c", "h", "r", "o", "m", "e">>, headless |-> TRUE],
     pages |-> <<>>, tests |-> <<>>]

\* The body of the end-to-end test: no page, no test.
E2EProject ==
    [config |-> [projectName |-> <<"E", "2", "E", "_", "P", "r", "o", "j", "e", "c", "t">>, baseUrl |-> <<"h", "t", "t", "p", "s", ":", "/", "/", "e", "2", "e", "-", "t", "e", "s", "t", ".", "c", "o", "m">>,
                 browser |-> <<"c", "h", "r", "o", "m", "e">>, headless |-> TRUE],
     pages |-> <<>>, tests |-> <<>>]

LoginPageDef ==
    [name |-> <<"L", "o", "g", "i", "n", "P", "a", "g", "e">>,
     elements |-> << [name |-> <<"u", "s", "e", "r", "n", "a", "m", "e", "_", "i", "n", "p", "u", "t">>, locatorType |-> <<"i", "d">>,
                      locatorValue |-> <<"u", "s", "e", "r", "n", "a", "m", "e">>, description |-> <<"i", "n", "p", "u", "t", " ", "e", "l", "e", "m", "e", "n", "t">>],
                     [name |-> <<"s", "u", "b", "m", "i", "t", "_", "b", "u", "t", "t", "o", "n">>, locatorType |-> <<"i", "d">>,
                      locatorValue |-> <<"s", "u", "b", "m", "i", "t">>] >>]

SearchPageDef ==
    [name |-> <<"S", "e", "a", "r", "c", "h", "P", "a", "g", "e">>,
     elements |-> << [name |-> <<"q", "_", "i", "n", "p", "u", "t">>, locatorType |-> <<"n", "a", "m", "e">>,
                      locatorValue |-> <<"q">>, description |-> <<"i", "n", "p", "u", "t", " ", "e", "l", "e", "m", "e", "n", "t">>] >>]

LoginTestDef ==
    [name |-> <<"t", "e", "s", "t", "_", "l", "o", "g", "i", "n", "_", "p", "a", "g", "e", "_", "l", "o", "g", "i", "n", "_", "f", "l", "o", "w">>, type |-> <<"s", "m", "o", "k", "e">>,
     steps |-> << [action |-> <<"n", "a", "v", "i", "g", "a", "t", "e">>, description |-> <<"N", "a", "v", "i", "g", "a", "t", "e", " ", "t", "o", " ", "L", "o", "g", "i", "n", "P", "a", "g", "e">>],
                  [action |-> <<"i", "n", "p", "u", "t">>, description |-> <<"E", "n", "t", "e", "r", " ", "u", "s", "e", "r", "n", "a", "m", "e">>,
                   value |-> <<"t", "e", "s", "t", "u", "s", "e", "r">>],
                  [action |-> <<"c", "l", "i", "c", "k">>, description |-> <<"C", "l", "i", "c", "k", " ", "s", "u", "b", "m", "i", "t", " ", "b", "u", "t", "t", "o", "n">>] >>]

\* One page, one test, a browser other than the default, headless off.
OnePageProject ==
    [config |-> [projectName |-> <<"S", "h", "o", "p">>, baseUrl |-> <<"h", "t", "t", "p", "s", ":", "/", "/", "s", "h", "o", "p", ".", "t", "e", "s", "t">>,
                 browser |-> <<"f", "i", "r", "e", "f", "o", "x">>, headless |-> FALSE],
     pages |-> <<LoginPageDef>>, tests |-> <<LoginTestDef>>]

\* A body whose one page has no name (an imported or hand-written JSON).
NamelessPageProject ==
    [config |-> [projectName |-> <<"S", "h", "o", "p">>, baseUrl |-> <<"h", "t", "t", "p", "s", ":", "/", "/", "s", "h", "o", "p", ".", "t", "e", "s", "t">>,
                 browser |-> <<"c", "h", "r", "o", "m", "e">>, headless |-> TRUE],
     pages |-> << [name |-> Undefined, elements |-> <<>>] >>, tests |-> <<>>]

\* The columns of Page, Element and Test that are NOT NULL and have no
\* default: the Prisma client rejects a nested create that leaves one out,
\* before it sends any statement.
RequiredGiven(proj) ==
    /\ \A k \in DOMAIN proj.pages :
          /\ proj.pages[k].name # Undefined
          /\ \A j \in DOMAIN proj.pages[k].elements :
                /\ proj.pages[k].elements[j].name # Undefined
                /\ proj.pages[k].elements[j].locatorType # Undefined
                /\ proj.pages[k].elements[j].locatorValue # Undefined
    /\ \A k \in DOMAIN proj.tests : proj.tests[k].name # Undefined

\* pages: { create: (project?.pages || []).map(...) }
PageRows(proj) ==
    [k \in DOMAIN proj.pages |->
        [name |-> proj.pages[k].name,
         elements |->
            [j \in DOMAIN proj.pages[k].elements |->
                [name |-> proj.pages[k].elements[j].name,
                 locatorType |-> proj.pages[k].elements[j].locatorType,
                 locatorValue |-> proj.pages[k].elements[j].locatorValue,
                 description |->
                    OrElse(Prop(proj.pages[k].elements[j], "description"), <<>>)]]]]

\* tests: { create: (project?.tests || []).map(...) }, order: idx
TestRows(proj) ==
    [k \in DOMAIN proj.tests |->
        [name |-> proj.tests[k].name,
         type |-> OrElse(Prop(proj.tests[k], "type"), <<"s", "m", "o", "k", "e">>),
         steps |->
            [j \in DOMAIN proj.tests[k].steps |->
                [action |-> OrElse(Prop(proj.tests[k].steps[j], "action"), <<>>),
                 description |-> OrElse(Prop(proj.tests[k].steps[j], "description"), <<>>),
                 value |-> OrElse(Prop(proj.tests[k].steps[j], "value"), <<>>),
                 pageId |-> OrElse(Prop(proj.tests[k].steps[j], "pageId"), <<>>),
                 elementId |-> OrElse(Prop(proj.tests[k].steps[j], "elementId"), <<>>),
                 order |-> j - 1]]]]

\* The scalar columns createFramework writes.  The project name is read
\* from project.projectName; version is the column default.
CreateData(id, t, name, proj, lastUrls) ==
    [id |-> id,
     name |-> OrElse(name, <<"U", "n", "n", "a", "m", "e", "d", " ", "F", "r", "a", "m", "e", "w", "o", "r", "k">>),
     version |-> 1,
     updatedAt |-> t,
     baseUrl |-> OrElse(Prop(proj.config, "baseUrl"), <<>>),
     browser |-> OrElse(Prop(proj.config, "browser"), <<"c", "h", "r", "o", "m", "e">>),
     headless |-> proj.config.headless,
     projectName |-> OrElse(Prop(proj, "projectName"), <<"p", "y", "t", "e", "s", "t", "-", "a", "u", "t", "o", "m", "a", "t", "i", "o", "n">>),
     totalPages |-> Len(proj.pages),
     totalTests |-> Len(proj.tests),
     lastUrls |-> lastUrls]

\* The scalar columns updateFramework writes; projectName is not among them.
UpdateData(row, t, name, proj, lastUrls) ==
    [row EXCEPT !.name = OrElse(name, <<"U", "n", "n", "a", "m", "e", "d", " ", "F", "r", "a", "m", "e", "w", "o", "r", "k">>),
                !.version = row.version + 1,
                !.updatedAt = t,
                !.baseUrl = OrElse(Prop(proj.config, "baseUrl"), <<>>),
                !.browser = OrElse(Prop(proj.config, "browser"), <<"c", "h", "r", "o", "m", "e">>),
                !.headless = proj.config.headless,
                !.totalPages = Len(proj.pages),
                !.totalTests = Len(proj.tests),
                !.lastUrls = lastUrls]

\* The tables: Framework rows by id; the Page and Test rows of each
\* framework id with their Element and TestStep rows, in insertion order.
EmptyTables(ids) ==
    [framework |-> [i \in {} |-> <<>>],
     page |-> [i \in ids |-> <<>>],
     test |-> [i \in ids |-> <<>>]]

Exists(db, id) == id \in DOMAIN db.framework

\* prisma.framework.create with the nested creates, one transaction
Created(db, id, t, name, proj, lastUrls) ==
    [framework |-> (id :> CreateData(id, t, name, proj, lastUrls)) @@ db.framework,
     page |-> [db.page EXCEPT ![id] = PageRows(proj)],
     test |-> [db.test EXCEPT ![id] = TestRows(proj)]]

\* prisma.page.deleteMany({ where: { frameworkId: id } })
PagesDeleted(db, id) == [db EXCEPT !.page[id] = <<>>]

\* prisma.test.deleteMany({ where: { frameworkId: id } })
TestsDeleted(db, id) == [db EXCEPT !.test[id] = <<>>]

\* prisma.framework.update throws when no row has the id or the data is
\* rejected, and writes nothing then.
UpdateAccepted(db, id, proj) == Exists(db, id) /\ RequiredGiven(proj)

\* prisma.framework.update with the nested creates, one transaction
Updated(db, id, t, name, proj, lastUrls) ==
    [framework |-> [db.framework EXCEPT
                        ![id] = UpdateData(db.framework[id], t, name, proj, lastUrls)],
     page |-> [db.page EXCEPT ![id] = @ \o PageRows(proj)],
     test |-> [db.test EXCEPT ![id] = @ \o TestRows(proj)]]

\* A delete that removes the pages and tests and keeps the framework row.
Deleted_KeepRow(db, id) == [db EXCEPT !.page[id] = <<>>, !.test[id] = <<>>]

\* prisma.framework.delete; ON DELETE CASCADE removes the pages and tests
Deleted(db, id) ==
    [framework |-> [i \in DOMAIN db.framework \ {id} |-> db.framework[i]],
     page |-> [db.page EXCEPT ![id] = <<>>],
     test |-> [db.test EXCEPT ![id] = <<>>]]

\* findUnique with include: the row with its pages and tests
FindUnique(db, id) ==
    [pages |-> db.page[id], tests |-> db.test[id]] @@ db.framework[id]

\* findMany with orderBy: { updatedAt: 'desc' }
RECURSIVE ByUpdatedAtDesc(_, _)
ByUpdatedAtDesc(db, ids) ==
    IF ids = {} THEN <<>>
    ELSE LET latest == CHOOSE i \in ids :
                          \A j \in ids : db.framework[j].updatedAt <= db.framework[i].updatedAt
         IN  <<FindUnique(db, latest)>> \o ByUpdatedAtDesc(db, ids \ {latest})

FindMany(db) == ByUpdatedAtDesc(db, DOMAIN db.framework)

\* What remains stored for one id: the row, if any, and its pages and tests
Stored(db, id) ==
    [exists |-> Exists(db, id),
     framework |-> IF Exists(db, id) THEN <<db.framework[id]>> ELSE <<>>,
     pages |-> db.page[id], tests |-> db.test[id]]

\* t.steps.sort((a, b) => a.order - b.order)
RECURSIVE SortByOrder(_)
SortByOrder(steps) ==
    IF steps = <<>> THEN <<>>
    ELSE LET k == CHOOSE i \in DOMAIN steps :
                     /\ \A j \in DOMAIN steps : steps[i].order <= steps[j].order
                     /\ \A j \in 1..(i - 1) : steps[j].order # steps[i].order
         IN  <<steps[k]>> \o
             SortByOrder([j \in 1..(Len(steps) - 1) |->
                             IF j < k THEN steps[j] ELSE steps[j + 1]])

\* mapFrameworkToProject on the body of getFrameworkById
mapFrameworkToProject(fw) ==
    [config |-> [projectName |-> fw.projectName,
                 baseUrl |-> fw.baseUrl,
                 browser |-> fw.browser,
                 headless |-> fw.headless],
     pages |-> [k \in DOMAIN fw.pages |->
                  [name |-> fw.pages[k].name,
                   elements |->
                      [j \in DOMAIN fw.pages[k].elements |->
                          [name |-> fw.pages[k].elements[j].name,
                           locatorType |-> fw.pages[k].elements[j].locatorType,
                           locatorValue |-> fw.pages[k].elements[j].locatorValue,
                           description |-> fw.pages[k].elements[j].description]]]],
     tests |-> [k \in DOMAIN fw.tests |->
                  [name |-> fw.tests[k].name,
                   type |-> fw.tests[k].type,
                   steps |->
                      LET sorted == SortByOrder(fw.tests[k].steps)
                      IN  [j \in DOMAIN sorted |->
                              [action |-> sorted[j].action,
                               description |-> sorted[j].description,
                               value |-> sorted[j].value,
                               pageId |-> sorted[j].pageId,
                               elementId |-> sorted[j].elementId]]]]]

(***************************************************************************)
(* Bounds and idle states of the service and the application               *)
(***************************************************************************)
\* Frameworks created in one behaviour.
MaxFrameworks == 2

\* Writes (creates and updates) in one behaviour.
MaxWrites == 2

\* Generate runs in one behaviour.
MaxRuns == 2

\* Pages added by hand in one behaviour.
MaxAdded == 1

\* useState<string | null>(null): no framework is active
Null == 0

FrameworkIds == 1..MaxFrameworks

NoUpdate == [pc |-> "idle"]

NoResponse == [op |-> "none", status |-> 0]

\* The locals of handleAiGenerate, before its first run: validUrls, the
\* position of the for loop, allPages, allTests, newProject, the project,
\* activeFrameworkId and frameworkName of its closure, the urls it logged or
\* alerted with their outcome, the id it saved, and the runs so far.
NoRun ==
    [pc |-> "idle", runs |-> 0, validUrls |-> <<>>, i |-> 1, allPages |-> <<>>,
     allTests |-> <<>>, log |-> <<>>, project |-> INITIAL_PROJECT,
     activeFrameworkId |-> Null, frameworkName |-> <<>>,
     newProject |-> INITIAL_PROJECT, saved |-> Null]

\* new Map<string, string>()
NoFiles == [f \in {} |-> <<>>]

ServiceIdle ==
    /\ prisma = EmptyTables(FrameworkIds)
    /\ nextId = 1
    /\ now = 0
    /\ upd = NoUpdate
    /\ res = NoResponse

AppIdle ==
    /\ project = INITIAL_PROJECT
    /\ activeFrameworkId = Null
    /\ frameworkName = <<>>
    /\ savedFrameworks = <<>>
    /\ aiUrls = << <<>> >>
    /\ isGenerating = FALSE
    /\ activeTab = "ai"
    /\ localStorage = Null
    /\ gen = NoRun
    /\ previewFiles = NoFiles

AnalysisIdle ==
    /\ doc = <<>>
    /\ url = <<>>
    /\ title = <<>>
    /\ pc = "idle"
    /\ idx = 1
    /\ derivedName = <<>>
    /\ elements = <<>>
    /\ tests = <<>>
    /\ locs = <<>>
    /\ earlier = [called |-> FALSE, pageName |-> <<>>, elements |-> <<>>, tests |-> <<>>]
(***************************************************************************)
(* The documents, URLs and titles the model analyses                       *)
(***************************************************************************)
\* The largest number of element nodes of a generated document.
MaxNodes == 3

\* The values Math.floor(Math.random() * 1000) takes in the model: 0..MaxRandom.
MaxRandom == 1

NoAttrs == [a \in {} |-> <<>>]

El(tag, attrs, text) == [tag |-> tag, attrs |-> attrs, text |-> text]

\* The elements generated documents are made of.
Templates ==
    { El(<<"i", "n", "p", "u", "t">>, (<<"i", "d">> :> <<"u", "s", "e", "r">>), <<>>),
      El(<<"i", "n", "p", "u", "t">>, (<<"i", "d">> :> <<"x", "1">>) @@ (<<"n", "a", "m", "e">> :> <<"p", "a", "s", "s">>), <<>>),
      El(<<"i", "n", "p", "u", "t">>, NoAttrs, <<>>),
      El(<<"i", "n", "p", "u", "t">>, (<<"d", "a", "t", "a", "-", "t", "e", "s", "t">> :> <<"q">>) @@ (<<"p", "l", "a", "c", "e", "h", "o", "l", "d", "e", "r">> :> <<"S", "e", "a", "r", "c", "h">>), <<>>),
      El(<<"b", "u", "t", "t", "o", "n">>, (<<"c", "l", "a", "s", "s">> :> <<"b", "t", "n">>), <<"L", "o", "g", "i", "n">>),
      El(<<"b", "u", "t", "t", "o", "n">>, (<<"c", "l", "a", "s", "s">> :> <<"b", "t", "n", " ", "o", "k">>), <<"S", "a", "v", "e">>),
      El(<<"a">>, NoAttrs, <<"H", "e", "l", "l", "o", " ", "w", "o", "r", "l", "d">>),
      El(<<"a">>, NoAttrs, <<"H", "e", "l", "l", "o", " ", " ", "w", "o", "r", "l", "d">>),
      El(<<"l", "a", "b", "e", "l">>, NoAttrs, <<"E", "m", "a", "i", "l">>),
      El(<<"d", "i", "v">>, NoAttrs, <<>>) }

\* The tag of the elements that hold element children in a generated document.
ContainerTags == { <<"d", "i", "v">> }

\* Parent vectors of n nodes listed in document order.
RECURSIVE OnPathToRoot(_, _, _)
OnPathToRoot(p, a, n) == n # 0 /\ (n = a \/ OnPathToRoot(p, a, p[n]))

Shapes(n) ==
    { p \in [1..n -> 0..(n - 1)] :
        /\ p[1] = 0
        /\ \A i \in 2..n : p[i] = 0 \/ OnPathToRoot(p, p[i], i - 1) }

AllShapes == [n \in 1..MaxNodes |-> Shapes(n)]

MakeDoc(ts, p) == [i \in DOMAIN ts |-> [tag |-> ts[i].tag, parent |-> p[i],
                                        attrs |-> ts[i].attrs, text |-> ts[i].text]]

\* What the HTML parser yields for the generated documents: children only
\* below container elements.
ShapesFor(ts) ==
    { p \in AllShapes[Len(ts)] :
        \A i \in DOMAIN ts : p[i] # BODY => ts[p[i]].tag \in ContainerTags }

Flat(ts) == MakeDoc(ts, [i \in DOMAIN ts |-> BODY])

\* <input id="username"> <input id="ext-gen55" name="password" type="password">
\* <button id="submit">Login</button>
LoginDoc ==
    Flat(<< El(<<"i", "n", "p", "u", "t">>, (<<"i", "d">> :> <<"u", "s", "e", "r", "n", "a", "m", "e">>), <<>>),
            El(<<"i", "n", "p", "u", "t">>, (<<"i", "d">> :> <<"e", "x", "t", "-", "g", "e", "n", "5", "5">>) @@ (<<"n", "a", "m", "e">> :> <<"p", "a", "s", "s", "w", "o", "r", "d">>)
                         @@ (<<"t", "y", "p", "e">> :> <<"p", "a", "s", "s", "w", "o", "r", "d">>), <<>>),
            El(<<"b", "u", "t", "t", "o", "n">>, (<<"i", "d">> :> <<"s", "u", "b", "m", "i", "t">>), <<"L", "o", "g", "i", "n">>) >>)

\* <label>Email</label><input>
LabelDoc == Flat(<< El(<<"l", "a", "b", "e", "l">>, NoAttrs, <<"E", "m", "a", "i", "l">>), El(<<"i", "n", "p", "u", "t">>, NoAttrs, <<>>) >>)

\* The same pair next to a second input that is no sibling of the label.
LabelDocTwoInputs ==
    MakeDoc(<< El(<<"d", "i", "v">>, NoAttrs, <<>>), El(<<"l", "a", "b", "e", "l">>, NoAttrs, <<"E", "m", "a", "i", "l">>),
               El(<<"i", "n", "p", "u", "t">>, NoAttrs, <<>>), El(<<"i", "n", "p", "u", "t">>, (<<"i", "d">> :> <<"x", "1">>), <<>>) >>,
            <<0, 1, 1, 0>>)

\* An input with a label after it in a div of their own, and a second input.
AnchorWithinDoc ==
    MakeDoc(<< El(<<"i", "n", "p", "u", "t">>, (<<"i", "d">> :> <<"x", "1">>), <<>>), El(<<"d", "i", "v">>, NoAttrs, <<>>),
               El(<<"i", "n", "p", "u", "t">>, NoAttrs, <<>>), El(<<"l", "a", "b", "e", "l">>, NoAttrs, <<"E", "m", "a", "i", "l">>) >>,
            <<0, 0, 2, 2>>)

\* A name that ends the quoted string of its selector early.
QuoteNameDoc ==
    Flat(<< El(<<"i", "n", "p", "u", "t">>, (<<"i", "d">> :> <<"u", "s", "e", "r">>), <<>>), El(<<"i", "n", "p", "u", "t">>, (<<"n", "a", "m", "e">> :> <<"a", "\"", "b">>), <<>>),
            El(<<"b", "u", "t", "t", "o", "n">>, NoAttrs, <<"G", "o", " ", "o", "n">>) >>)

\* An id with a dot, as form frameworks write them.
DottedIdDoc ==
    Flat(<< El(<<"i", "n", "p", "u", "t">>, (<<"i", "d">> :> <<"u", "s", "e", "r", ".", "n", "a", "m", "e">>), <<>>), El(<<"i", "n", "p", "u", "t">>, NoAttrs, <<>>) >>)

\* A hidden input among visible elements.
HiddenInputDoc ==
    Flat(<< El(<<"i", "n", "p", "u", "t">>, (<<"t", "y", "p", "e">> :> <<"h", "i", "d", "d", "e", "n">>) @@ (<<"n", "a", "m", "e">> :> <<"t", "o", "k">>), <<>>),
            El(<<"i", "n", "p", "u", "t">>, (<<"n", "a", "m", "e">> :> <<"t", "o", "k">>), <<>>), El(<<"b", "u", "t", "t", "o", "n">>, NoAttrs, <<"G", "o", " ", "o", "n">>) >>)

\* Two buttons whose texts hold no letter or digit and a quote.
SymbolTextDoc ==
    Flat(<< El(<<"b", "u", "t", "t", "o", "n">>, NoAttrs, <<"'", "-", "'">>), El(<<"b", "u", "t", "t", "o", "n">>, NoAttrs, <<"'", "-", "'">>) >>)

EmptyDoc == <<>>

\* The texts of the buttons of the two-button documents: ordinary ones, one
\* of two characters, two that differ in their blanks only, one with a
\* quote, one of 60 characters and the empty one.
ButtonTexts ==
    { <<"L", "o", "g", "i", "n">>, <<"S", "a", "v", "e">>, <<"O", "K">>, <<"S", "i", "g", "n", " ", "i", "n">>, <<"S", "i", "g", "n", " ", " ", "i", "n">>, <<"I", "t", "'", "s">>,
      <<"P", "l", "e", "a", "s", "e", " ", "c", "o", "n", "f", "i", "r", "m", " ", "t", "h", "a", "t", " ", "y", "o", "u", " ", "h", "a", "v", "e", " ", "r", "e", "a", "d", " ", "t", "h", "e", " ", "t", "e", "r", "m", "s", " ", "a", "n", "d", " ", "c", "o", "n", "d", "i", "t", "i", "o", "n", "s", "!", "!">>, <<>> }

\* <button class="btn">t1</button><button class="btn">t2</button>
ButtonPair(t1, t2) ==
    Flat(<< El(<<"b", "u", "t", "t", "o", "n">>, (<<"c", "l", "a", "s", "s">> :> <<"b", "t", "n">>), t1), El(<<"b", "u", "t", "t", "o", "n">>, (<<"c", "l", "a", "s", "s">> :> <<"b", "t", "n">>), t2) >>)

ButtonPairDocs == { ButtonPair(t1, t2) : t1 \in ButtonTexts, t2 \in ButtonTexts }

\* A login form whose password input has no id.
LoginFlowDoc ==
    Flat(<< El(<<"i", "n", "p", "u", "t">>, (<<"i", "d">> :> <<"u", "s", "e", "r">>), <<>>), El(<<"i", "n", "p", "u", "t">>, (<<"n", "a", "m", "e">> :> <<"p", "a", "s", "s", "w", "o", "r", "d">>), <<>>),
            El(<<"b", "u", "t", "t", "o", "n">>, (<<"i", "d">> :> <<"s", "u", "b", "m", "i", "t">>), <<"L", "o", "g", "i", "n">>) >>)

\* The same form after a search box.
LoginSearchDoc ==
    Flat(<< El(<<"i", "n", "p", "u", "t">>, (<<"p", "l", "a", "c", "e", "h", "o", "l", "d", "e", "r">> :> <<"S", "e", "a", "r", "c", "h">>), <<>>),
            El(<<"i", "n", "p", "u", "t">>, (<<"i", "d">> :> <<"u", "s", "e", "r">>), <<>>), El(<<"i", "n", "p", "u", "t">>, (<<"n", "a", "m", "e">> :> <<"p", "a", "s", "s", "w", "o", "r", "d">>), <<>>),
            El(<<"b", "u", "t", "t", "o", "n">>, (<<"i", "d">> :> <<"s", "u", "b", "m", "i", "t">>), <<"L", "o", "g", "i", "n">>) >>)

\* Five elements no flow is detected on.
FiveElementsDoc ==
    Flat(<< El(<<"i", "n", "p", "u", "t">>, (<<"i", "d">> :> <<"a", "l", "p", "h", "a">>), <<>>), El(<<"b", "u", "t", "t", "o", "n">>, (<<"i", "d">> :> <<"b", "e", "t", "a">>), <<"G", "o", " ", "o", "n">>),
            El(<<"i", "n", "p", "u", "t">>, (<<"i", "d">> :> <<"g", "a", "m", "m", "a">>), <<>>), El(<<"a">>, (<<"i", "d">> :> <<"d", "e", "l", "t", "a">>), <<"M", "o", "r", "e">>),
            El(<<"b", "u", "t", "t", "o", "n">>, (<<"i", "d">> :> <<"o", "m", "e", "g", "a">>), <<"I", "n", "p", "u", "t", " ", "d", "a", "t", "a">>) >>)

\* A dotted id next to the element its selector selects.
DottedIdOtherDoc ==
    Flat(<< El(<<"i", "n", "p", "u", "t">>, (<<"i", "d">> :> <<"u", "s", "e", "r", ".", "n", "a", "m", "e">>), <<>>),
            El(<<"i", "n", "p", "u", "t">>, (<<"i", "d">> :> <<"u", "s", "e", "r">>) @@ (<<"c", "l", "a", "s", "s">> :> <<"n", "a", "m", "e">>), <<>>) >>)

\* Nothing to interact with: a hidden input, a label and a div.
OnlyHiddenDoc ==
    Flat(<< El(<<"i", "n", "p", "u", "t">>, (<<"t", "y", "p", "e">> :> <<"h", "i", "d", "d", "e", "n">>) @@ (<<"n", "a", "m", "e">> :> <<"t", "o", "k">>), <<>>),
            El(<<"l", "a", "b", "e", "l">>, NoAttrs, <<"E", "m", "a", "i", "l">>), El(<<"d", "i", "v">>, NoAttrs, <<>>) >>)

\* The documents analysed besides the generated ones.
ScenarioDocs ==
    { LoginDoc, LabelDoc, LabelDocTwoInputs, AnchorWithinDoc, QuoteNameDoc, DottedIdDoc,
      HiddenInputDoc, SymbolTextDoc, EmptyDoc, LoginFlowDoc, LoginSearchDoc, FiveElementsDoc,
      DottedIdOtherDoc, OnlyHiddenDoc }
    \cup ButtonPairDocs

ShopUrl == <<"h", "t", "t", "p", "s", ":", "/", "/", "s", "h", "o", "p", ".", "e", "x", "a", "m", "p", "l", "e", ".", "c", "o", "m", "/", "p", "r", "o", "d", "u", "c", "t", "s", "/", "4", "2">>

DefaultUrl == <<"h", "t", "t", "p", "s", ":", "/", "/", "a", "p", "p", ".", "i", "o", "/", "l", "o", "g", "i", "n">>

Urls ==
    { ShopUrl, DefaultUrl, <<"h", "t", "t", "p", "s", ":", "/", "/", "a", "p", "p", ".", "i", "o", "/", "4", "2">>, <<"h", "t", "t", "p", "s", ":", "/", "/", "a", "p", "p", ".", "i", "o">>, <<"h", "t", "t", "p", "s", ":", "/", "/", "a", "p", "p", ".", "i", "o", "/">>,
      <<"h", "t", "t", "p", "s", ":", "/", "/", "a", "p", "p", ".", "i", "o", "/", "a", "/", "c", "h", "e", "c", "k", "o", "u", "t", "-", "p", "a", "g", "e", "?", "x", "=", "1">>, <<"h", "t", "t", "p", "s", ":", "/", "/", "a", "p", "p", ".", "i", "o", "/", "2", "f", "a">>,
      <<"h", "t", "t", "p", "s", ":", "/", "/", "a", "p", "p", ".", "i", "o", "/", "a", "c", "c", "o", "u", "n", "t", "-", "s", "e", "t", "t", "i", "n", "g", "s", "-", "o", "v", "e", "r", "v", "i", "e", "w">>, <<"h", "t", "t", "p", "s", ":", "/", "/", "a", "p", "p", ".", "i", "o", "/", "L", "o", "g", "i", "n", "P", "a", "g", "e">>,
      <<"a", "p", "p", ".", "i", "o", "/", "l", "o", "g", "i", "n">>, <<"n", "o", "t", " ", "a", " ", "u", "r", "l">> }

DefaultTitle == <<"S", "h", "o", "p">>

Titles ==
    { <<>>, DefaultTitle, <<"M", "y", " ", "S", "h", "o", "p", " ", "-", " ", "B", "e", "s", "t", " ", "d", "e", "a", "l", "s">>, <<"S", "w", "a", "g", " ", "L", "a", "b", "s", " ", "|", " ", "P", "r", "o", "d", "u", "c", "t", "s", " ", "a", "n", "d", " ", "m", "o", "r", "e", " ", "g", "o", "o", "d", "s">>,
      <<"a", " ", "b">>, <<"I", "n", "t", "e", "r", "n", "a", "t", "i", "o", "n", "a", "l", "i", "z", "a", "t", "i", "o", "n", " ", "S", "e", "t", "t", "i", "n", "g", "s">>, <<"L", "o", "g", "-", "i", "n", "!">>, <<"L", "o", "g", "i", "n", " ", "P", "a", "g", "e">> }

(***************************************************************************)
(* analyzeDomAndGenerateSchema                                             *)
(*                                                                         *)
(* pc: "naming" before the page name is derived, "scan" during the         *)
(* forEach over the interactive nodes (idx is the position of the next     *)
(* one), "done" once pages and tests are returned, "thrown" once the       *)
(* returned promise is rejected.  locs keeps what generateLocator returned *)
(* for each node it was called on, with the name generated for the node.   *)
(* Entity ids (crypto.randomUUID) are opaque and left out.  earlier keeps  *)
(* what an earlier call on the same html and url returned, if there was    *)
(* one.                                                                    *)
(***************************************************************************)
NoResult == [called |-> FALSE, pageName |-> <<>>, elements |-> <<>>, tests |-> <<>>]

\* The push without the test for an element of the same name.
PushAlways(els, e) == Append(els, e)

\* if (!elements.find(e => e.name === name)) elements.push(e)
PushUnlessFound(els, e) ==
    IF \E k \in DOMAIN els : els[k].name = e.name THEN els ELSE Append(els, e)

Init ==
    /\ \/ /\ \E n \in 1..MaxNodes : \E ts \in [1..n -> Templates] : \E p \in ShapesFor(ts) :
                 doc = MakeDoc(ts, p)
          /\ url = DefaultUrl /\ title = DefaultTitle
       \/ doc \in ScenarioDocs /\ url = DefaultUrl /\ title = DefaultTitle
       \/ doc = LoginDoc /\ url \in Urls /\ title \in Titles
    /\ pc = "naming"
    /\ idx = 1
    /\ derivedName = <<"H", "o", "m", "e", "P", "a", "g", "e">>
    /\ elements = <<>>
    /\ tests = <<>>
    /\ locs = <<>>
    /\ earlier = NoResult
    /\ ServiceIdle
    /\ AppIdle

NamePage ==
    /\ pc = "naming"
    /\ derivedName' = DerivePageName(url, title)
    /\ pc' = "scan"
    /\ UNCHANGED <<doc, url, title, idx, elements, tests, locs, earlier>>
    /\ UNCHANGED <<serviceVars, appVars>>

\* The forEach callback on a hidden input: it returns at once.
ScanHidden ==
    /\ pc = "scan"
    /\ idx <= Len(InteractiveNodes(doc))
    /\ IsHiddenInput(doc[InteractiveNodes(doc)[idx]])
    /\ idx' = idx + 1
    /\ UNCHANGED <<doc, url, title, pc, derivedName, elements, tests, locs, earlier>>
    /\ UNCHANGED <<serviceVars, appVars>>

\* The forEach callback on any other node: locator, name, deduplication.
\* When generateLocator throws, the exception leaves forEach and the async
\* function, whose promise is rejected.
ScanElement ==
    /\ pc = "scan"
    /\ idx <= Len(InteractiveNodes(doc))
    /\ ~IsHiddenInput(doc[InteractiveNodes(doc)[idx]])
    /\ LET n == InteractiveNodes(doc)[idx]
           loc == generateLocator(doc, n)
       IN  IF loc.type = "throw"
           THEN /\ pc' = "thrown"
                /\ UNCHANGED <<idx, elements, locs>>
           ELSE /\ \E r \in (IF NeedsRandom(doc, n) THEN 0..MaxRandom ELSE {0}) :
                     LET name == ElementName(doc, n, r)
                     IN  /\ elements' =
                               PushUnlessFound(elements,
                                               [name |-> name, locatorType |-> loc.type,
                                                locatorValue |-> loc.value, tag |-> doc[n].tag])
                         /\ locs' = Append(locs, [node |-> n, loc |-> loc, name |-> name])
                /\ idx' = idx + 1
                /\ pc' = pc
    /\ UNCHANGED <<doc, url, title, derivedName, tests, earlier>>
    /\ UNCHANGED <<serviceVars, appVars>>

\* After the loop: the tests are synthesized and the result is returned.
Synthesize ==
    /\ pc = "scan"
    /\ idx > Len(InteractiveNodes(doc))
    /\ tests' = generatedTests(derivedName, elements)
    /\ pc' = "done"
    /\ UNCHANGED <<doc, url, title, idx, derivedName, elements, locs, earlier>>
    /\ UNCHANGED <<serviceVars, appVars>>

\* The caller analyses the same html and url a second time.
CallAgain ==
    /\ pc = "done"
    /\ ~earlier.called
    /\ earlier' = [called |-> TRUE, pageName |-> derivedName, elements |-> elements,
                 tests |-> tests]
    /\ pc' = "naming"
    /\ idx' = 1
    /\ derivedName' = <<"H", "o", "m", "e", "P", "a", "g", "e">>
    /\ elements' = <<>>
    /\ tests' = <<>>
    /\ locs' = <<>>
    /\ UNCHANGED <<doc, url, title>>
    /\ UNCHANGED <<serviceVars, appVars>>

Next == NamePage \/ ScanHidden \/ ScanElement \/ Synthesize \/ CallAgain

Spec == Init /\ [][Next]_vars


(***************************************************************************)
(* The framework routes                                                    *)
(*                                                                         *)
(* Each route is one request.  getAllFrameworks, getFrameworkById,         *)
(* createFramework and deleteFramework await one Prisma call and are one   *)
(* step; updateFramework awaits three calls in turn and is three steps,    *)
(* between which the other requests run.  One update is in flight at a     *)
(* time.  res is the last response: the route, the id asked for, the       *)
(* status, the body, and the name and project of the request.  upd.before  *)
(* is what was stored for the id when the update request arrived.          *)
(***************************************************************************)
RequestNames == { <<>>, <<"E", "2", "E", " ", "T", "e", "s", "t", " ", "F", "r", "a", "m", "e", "w", "o", "r", "k">>, <<"E", "2", "E", " ", "T", "e", "s", "t", " ", "F", "r", "a", "m", "e", "w", "o", "r", "k", " ", "(", "U", "p", "d", "a", "t", "e", "d", ")">> }

RequestProjects == { E2EProject, OnePageProject, NamelessPageProject }

RequestUrls == { << <<"h", "t", "t", "p", "s", ":", "/", "/", "e", "2", "e", "-", "t", "e", "s", "t", ".", "c", "o", "m">> >> }

ServiceInit == ServiceIdle /\ AppIdle /\ AnalysisIdle

getAllFrameworks ==
    /\ res' = [op |-> "getAllFrameworks", id |-> Null, status |-> 200,
               body |-> FindMany(prisma)]
    /\ UNCHANGED <<prisma, nextId, now, upd>>
    /\ UNCHANGED <<analysisVars, appVars>>

getFrameworkById ==
    /\ \E id \in FrameworkIds :
          res' = IF Exists(prisma, id)
                 THEN [op |-> "getFrameworkById", id |-> id, status |-> 200,
                       body |-> FindUnique(prisma, id)]
                 ELSE [op |-> "getFrameworkById", id |-> id, status |-> 404,
                       body |-> [error |-> "Framework not found"]]
    /\ UNCHANGED <<prisma, nextId, now, upd>>
    /\ UNCHANGED <<analysisVars, appVars>>

createFramework ==
    /\ nextId <= MaxFrameworks
    /\ now < MaxWrites
    /\ \E name \in RequestNames, proj \in RequestProjects, lastUrls \in RequestUrls :
          IF RequiredGiven(proj)
          THEN /\ prisma' = Created(prisma, nextId, now + 1, name, proj, lastUrls)
               /\ nextId' = nextId + 1
               /\ now' = now + 1
               /\ res' = [op |-> "createFramework", id |-> nextId, status |-> 201,
                          body |-> FindUnique(prisma', nextId),
                          name |-> name, project |-> proj]
          ELSE /\ res' = [op |-> "createFramework", id |-> Null, status |-> 500,
                          body |-> [error |-> "Failed to create framework"],
                          name |-> name, project |-> proj]
               /\ UNCHANGED <<prisma, nextId, now>>
    /\ UNCHANGED upd
    /\ UNCHANGED <<analysisVars, appVars>>

\* The request arrives and the pages of the id are deleted.
updateDeletePages ==
    /\ upd.pc = "idle"
    /\ now < MaxWrites
    /\ \E id \in FrameworkIds, name \in RequestNames, proj \in RequestProjects,
          lastUrls \in RequestUrls :
          /\ upd' = [pc |-> "pagesDeleted", id |-> id, name |-> name, project |-> proj,
                     lastUrls |-> lastUrls, before |-> Stored(prisma, id)]
          /\ prisma' = PagesDeleted(prisma, id)
    /\ UNCHANGED <<nextId, now, res>>
    /\ UNCHANGED <<analysisVars, appVars>>

updateDeleteTests ==
    /\ upd.pc = "pagesDeleted"
    /\ prisma' = TestsDeleted(prisma, upd.id)
    /\ upd' = [upd EXCEPT !.pc = "testsDeleted"]
    /\ UNCHANGED <<nextId, now, res>>
    /\ UNCHANGED <<analysisVars, appVars>>

\* prisma.framework.update and the response, or the catch block
updateWrite ==
    /\ upd.pc = "testsDeleted"
    /\ IF UpdateAccepted(prisma, upd.id, upd.project)
       THEN /\ prisma' = Updated(prisma, upd.id, now + 1, upd.name, upd.project,
                                 upd.lastUrls)
            /\ now' = now + 1
            /\ res' = [op |-> "updateFramework", id |-> upd.id, status |-> 200,
                       body |-> FindUnique(prisma', upd.id),
                       name |-> upd.name, project |-> upd.project,
                       before |-> upd.before]
       ELSE /\ res' = [op |-> "updateFramework", id |-> upd.id, status |-> 500,
                       body |-> [error |-> "Failed to update framework"],
                       name |-> upd.name, project |-> upd.project,
                       before |-> upd.before]
            /\ UNCHANGED <<prisma, now>>
    /\ upd' = NoUpdate
    /\ UNCHANGED nextId
    /\ UNCHANGED <<analysisVars, appVars>>

deleteFramework ==
    /\ \E id \in FrameworkIds :
          IF Exists(prisma, id)
          THEN /\ prisma' = Deleted(prisma, id)
               /\ res' = [op |-> "deleteFramework", id |-> id, status |-> 200,
                          body |-> [message |-> "Framework deleted successfully"]]
          ELSE /\ res' = [op |-> "deleteFramework", id |-> id, status |-> 500,
                          body |-> [error |-> "Failed to delete framework"]]
               /\ UNCHANGED prisma
    /\ UNCHANGED <<nextId, now, upd>>
    /\ UNCHANGED <<analysisVars, appVars>>

ServiceNext ==
    \/ getAllFrameworks
    \/ getFrameworkById
    \/ createFramework
    \/ updateDeletePages
    \/ updateDeleteTests
    \/ updateWrite
    \/ deleteFramework

ServiceSpec == ServiceInit /\ [][ServiceNext]_vars

(***************************************************************************)
(* The generate run of the application (handleAiGenerate)                  *)
(*                                                                         *)
(* The handler is one step up to its loop, one step for each url (the      *)
(* awaited fetch and analysis, or the catch block) and one step from the   *)
(* merge to the end (setProject, the awaited auto-save and list refresh,   *)
(* setActiveTab, finally).  The application is the only client of the      *)
(* service here, so a request of the auto-save runs to its response.  The  *)
(* fetch and the analysis of a url, and the delivery of a request, succeed *)
(* or fail as the environment decides.                                     *)
(***************************************************************************)
LoginUrl == <<"h", "t", "t", "p", "s", ":", "/", "/", "s", "h", "o", "p", ".", "t", "e", "s", "t", "/", "l", "o", "g", "i", "n">>

SearchUrl == <<"h", "t", "t", "p", "s", ":", "/", "/", "s", "h", "o", "p", ".", "t", "e", "s", "t", "/", "s", "e", "a", "r", "c", "h">>

\* The url fields of the form: one or two, blank or filled
UrlLists ==
    { << <<>> >>, <<LoginUrl>>, <<LoginUrl, SearchUrl>>, << <<" ", " ">>, SearchUrl >> }

FrameworkNames == { <<>>, <<"S", "h", "o", "p", " ", "t", "e", "s", "t", "s">> }

SearchTestDef ==
    [name |-> <<"t", "e", "s", "t", "_", "s", "e", "a", "r", "c", "h", "_", "p", "a", "g", "e", "_", "s", "e", "a", "r", "c", "h">>, type |-> <<"r", "e", "g", "r", "e", "s", "s", "i", "o", "n">>,
     steps |-> << [action |-> <<"n", "a", "v", "i", "g", "a", "t", "e">>, description |-> <<"N", "a", "v", "i", "g", "a", "t", "e", " ", "t", "o", " ", "S", "e", "a", "r", "c", "h", "P", "a", "g", "e">>],
                  [action |-> <<"i", "n", "p", "u", "t">>, description |-> <<"E", "n", "t", "e", "r", " ", "s", "e", "a", "r", "c", "h", " ", "t", "e", "r", "m">>,
                   value |-> <<"t", "e", "s", "t", " ", "q", "u", "e", "r", "y">>] >>]

\* The value analyzeDomAndGenerateSchema resolves to for the page of a url:
\* one page and its tests.
analysisResult(u) ==
    IF u = LoginUrl
    THEN [pages |-> <<LoginPageDef>>, tests |-> <<LoginTestDef>>]
    ELSE [pages |-> <<SearchPageDef>>, tests |-> <<SearchTestDef>>]

\* fetchPageDom throws, analyzeDomAndGenerateSchema rejects, or both return
Outcomes == { "fetchFailed", "analysisFailed", "ok" }

\* aiUrls.filter(url => url.trim() !== '')
ValidUrls(urls) == SelectSeq(urls, LAMBDA u : trim(u) # <<>>)

\* A loop that a failed url leaves.
NextIndex_AbortOnFailure(i, n, outcome) == IF outcome = "ok" THEN i + 1 ELSE n + 1

\* The loop goes on with the next url after the try block and after the catch.
NextIndex(i, n, outcome) == i + 1

\* frameworkName || `Framework_${Date.now()}`
SaveName(name, t) == OrElse(name, <<"F", "r", "a", "m", "e", "w", "o", "r", "k", "_">> \o NatToString(t))

\* The url fields are edited, between two runs.
EditUrls ==
    /\ ~isGenerating
    /\ \E urls \in UrlLists : aiUrls' = urls
    /\ UNCHANGED <<project, activeFrameworkId, frameworkName, savedFrameworks,
                   isGenerating, activeTab, localStorage, gen, previewFiles>>
    /\ UNCHANGED <<analysisVars, serviceVars>>

\* The name field is edited, between two runs.
EditFrameworkName ==
    /\ ~isGenerating
    /\ \E name \in FrameworkNames : frameworkName' = name
    /\ UNCHANGED <<project, activeFrameworkId, savedFrameworks, aiUrls,
                   isGenerating, activeTab, localStorage, gen, previewFiles>>
    /\ UNCHANGED <<analysisVars, serviceVars>>

\* Add Page on the pages tab
AddPage ==
    /\ Len(project.pages) < MaxAdded
    /\ project' = [project EXCEPT !.pages = Append(@, [name |-> <<"N", "e", "w", "P", "a", "g", "e">>, elements |-> <<>>])]
    /\ UNCHANGED <<activeFrameworkId, frameworkName, savedFrameworks, aiUrls,
                   isGenerating, activeTab, localStorage, gen, previewFiles>>
    /\ UNCHANGED <<analysisVars, serviceVars>>

\* The button is enabled when no run is in progress and a url is given.
StartGenerate ==
    /\ ~isGenerating
    /\ ValidUrls(aiUrls) # <<>>
    /\ gen.runs < MaxRuns
    /\ isGenerating' = TRUE
    /\ gen' = [pc |-> "loop", runs |-> gen.runs + 1, validUrls |-> ValidUrls(aiUrls),
               i |-> 1, allPages |-> <<>>, allTests |-> <<>>, log |-> <<>>,
               project |-> project, activeFrameworkId |-> activeFrameworkId,
               frameworkName |-> frameworkName, newProject |-> project, saved |-> Null]
    /\ UNCHANGED <<project, activeFrameworkId, frameworkName, savedFrameworks, aiUrls,
                   activeTab, localStorage, previewFiles>>
    /\ UNCHANGED <<analysisVars, serviceVars>>

\* One iteration of for (const url of validUrls)
ProcessUrl ==
    /\ gen.pc = "loop"
    /\ gen.i <= Len(gen.validUrls)
    /\ \E outcome \in Outcomes :
          LET u == gen.validUrls[gen.i]
              result == analysisResult(u)
          IN  gen' = [gen EXCEPT
                        !.allPages = IF outcome = "ok" THEN @ \o result.pages ELSE @,
                        !.allTests = IF outcome = "ok" THEN @ \o result.tests ELSE @,
                        !.log = Append(@, [url |-> u, outcome |-> outcome]),
                        !.i = NextIndex(gen.i, Len(gen.validUrls), outcome)]
    /\ UNCHANGED <<project, activeFrameworkId, frameworkName, savedFrameworks, aiUrls,
                   isGenerating, activeTab, localStorage, previewFiles>>
    /\ UNCHANGED <<analysisVars, serviceVars>>

\* const newProject = {...project, config: {..., baseUrl: validUrls[0]}, pages, tests}
NewProject(g) ==
    [g.project EXCEPT
        !.config.baseUrl = g.validUrls[1],
        !.pages = IF g.activeFrameworkId # Null THEN g.project.pages \o g.allPages
                  ELSE g.allPages,
        !.tests = IF g.activeFrameworkId # Null THEN g.project.tests \o g.allTests
                  ELSE g.allTests]

\* From the merge to the end of the handler.
FinishRun ==
    /\ gen.pc = "loop"
    /\ gen.i > Len(gen.validUrls)
    /\ LET newProject == NewProject(gen)
           id == gen.activeFrameworkId
       IN  /\ project' = newProject
           /\ \E delivered \in BOOLEAN, listed \in BOOLEAN :
                 IF id # Null
                 THEN \* apiService.update, then apiService.getAll
                      LET cleared == TestsDeleted(PagesDeleted(prisma, id), id)
                          accepted == delivered /\ UpdateAccepted(cleared, id, newProject)
                      IN  /\ prisma' = IF ~delivered THEN prisma
                                       ELSE IF accepted
                                       THEN Updated(cleared, id, now + 1, gen.frameworkName,
                                                    newProject, gen.validUrls)
                                       ELSE cleared
                          /\ now' = IF accepted THEN now + 1 ELSE now
                          /\ res' = IF ~delivered THEN res
                                    ELSE IF accepted
                                    THEN [op |-> "updateFramework", id |-> id, status |-> 200]
                                    ELSE [op |-> "updateFramework", id |-> id, status |-> 500]
                          /\ savedFrameworks' = IF accepted /\ listed THEN FindMany(prisma')
                                                ELSE savedFrameworks
                          /\ gen' = [gen EXCEPT !.pc = "idle", !.newProject = newProject,
                                                !.saved = IF accepted THEN id ELSE Null]
                          /\ UNCHANGED <<nextId, activeFrameworkId, localStorage>>
                 ELSE \* apiService.create, then apiService.getAll
                      LET accepted == delivered /\ RequiredGiven(newProject)
                                      /\ nextId <= MaxFrameworks
                      IN  /\ prisma' = IF accepted
                                       THEN Created(prisma, nextId, now + 1,
                                                    SaveName(gen.frameworkName, now + 1),
                                                    newProject, gen.validUrls)
                                       ELSE prisma
                          /\ now' = IF accepted THEN now + 1 ELSE now
                          /\ nextId' = IF accepted THEN nextId + 1 ELSE nextId
                          /\ res' = IF ~delivered THEN res
                                    ELSE IF accepted
                                    THEN [op |-> "createFramework", id |-> nextId,
                                          status |-> 201]
                                    ELSE [op |-> "createFramework", id |-> Null,
                                          status |-> 500]
                          /\ activeFrameworkId' = IF accepted THEN nextId
                                                  ELSE activeFrameworkId
                          /\ localStorage' = IF accepted THEN nextId ELSE localStorage
                          /\ savedFrameworks' =
                                IF ~accepted THEN savedFrameworks
                                ELSE IF listed THEN FindMany(prisma')
                                ELSE <<FindUnique(prisma', nextId)>> \o savedFrameworks
                          /\ gen' = [gen EXCEPT !.pc = "idle", !.newProject = newProject,
                                                !.saved = IF accepted THEN nextId ELSE Null]
    /\ activeTab' = "pages"
    /\ isGenerating' = FALSE
    /\ UNCHANGED <<frameworkName, aiUrls, previewFiles, upd>>
    /\ UNCHANGED analysisVars

GenerateInit == ServiceIdle /\ AppIdle /\ AnalysisIdle

GenerateNext ==
    \/ EditUrls
    \/ EditFrameworkName
    \/ AddPage
    \/ StartGenerate
    \/ ProcessUrl
    \/ FinishRun

GenerateSpec == GenerateInit /\ [][GenerateNext]_vars

(***************************************************************************)
(* The PyTest file generator (generatePyTestFramework)                     *)
(*                                                                         *)
(* The generated files are a map from path to content.  The content of a   *)
(* file is the sequence of the names of the test functions written in it   *)
(* and the sequence of the names of the page classes it defines or         *)
(* imports; the fixed text of a file is left out.                          *)
(***************************************************************************)
NewPageDef == [name |-> <<"N", "e", "w", "P", "a", "g", "e">>, elements |-> <<>>]

\* Add Test on the tests tab
NewScenarioDef == [name |-> <<"t", "e", "s", "t", "_", "n", "e", "w", "_", "s", "c", "e", "n", "a", "r", "i", "o">>, type |-> <<"r", "e", "g", "r", "e", "s", "s", "i", "o", "n">>, steps |-> <<>>]

CheckoutTestDef ==
    [name |-> <<"t", "e", "s", "t", "_", "c", "h", "e", "c", "k", "o", "u", "t">>, type |-> <<"r", "e", "g", "r", "e", "s", "s", "i", "o", "n">>,
     steps |-> << [action |-> <<"c", "l", "i", "c", "k">>, description |-> <<"C", "l", "i", "c", "k", " ", "t", "h", "e", " ", "p", "a", "y", " ", "b", "u", "t", "t", "o", "n">>] >>]

PreviewPages == { LoginPageDef, SearchPageDef, NewPageDef }

PreviewTests == { LoginTestDef, SearchTestDef, NewScenarioDef, CheckoutTestDef }

\* Sequences of at most two members of a set
UpToTwo(S) == { <<>> } \cup { <<a>> : a \in S } \cup { <<a, b>> : a \in S, b \in S }

PreviewProjects ==
    { [config |-> INITIAL_PROJECT.config, pages |-> ps, tests |-> ts] :
          ps \in UpToTwo(PreviewPages), ts \in UpToTwo(PreviewTests) }

\* title.split(/(?=[A-Z])/).join('_').toLowerCase()
convertTitleToSnake(t) == SnakeFrom(t, 1)

\* page.name.replace(/Page$/, '')
shortPageName(n) == IF endsWith(n, <<"P", "a", "g", "e">>) THEN SubSeq(n, 1, Len(n) - 4) ELSE n

startsWith(s, pre) == Len(pre) <= Len(s) /\ SubSeq(s, 1, Len(pre)) = pre

\* files.set(path, content)
FileSet(fs, path, content) == (path :> content) @@ fs

FileText == [tests |-> <<>>, pages |-> <<>>]

\* generatePageObject(page)
PageFile(pg) == [tests |-> <<>>, pages |-> <<pg.name>>]

\* generateTestFile(tests, pages, projectName): one function for each test
generateTestFile(ts, ps) ==
    [tests |-> [k \in DOMAIN ts |-> ts[k].name], pages |-> [k \in DOMAIN ps |-> ps[k].name]]

\* The filter of the tests relevant to a page
relevantTests(proj, pg) ==
    SelectSeq(proj.tests,
              LAMBDA t :
                 \/ \E j \in DOMAIN t.steps :
                       includes(toLowerCase(t.steps[j].description), toLowerCase(pg.name))
                 \/ includes(toLowerCase(t.name), toLowerCase(pg.name))
                 \/ includes(t.name, convertTitleToSnake(pg.name)))

\* The tests written for a page: all of them if none is relevant and the page
\* is the only one
TestsFor(proj, pg) ==
    IF relevantTests(proj, pg) = <<>> /\ Len(proj.pages) = 1 THEN proj.tests
    ELSE relevantTests(proj, pg)

\* The root, utility and package files
FixedFiles ==
    [f \in { <<"r", "e", "q", "u", "i", "r", "e", "m", "e", "n", "t", "s", ".", "t", "x", "t">>, <<"p", "y", "t", "e", "s", "t", ".", "i", "n", "i">>, <<"c", "o", "n", "f", "i", "g", "/", "c", "o", "n", "f", "i", "g", ".", "j", "s", "o", "n">>, <<"c", "o", "n", "f", "t", "e", "s", "t", ".", "p", "y">>,
             <<"u", "t", "i", "l", "s", "/", "_", "_", "i", "n", "i", "t", "_", "_", ".", "p", "y">>, <<"u", "t", "i", "l", "s", "/", "d", "r", "i", "v", "e", "r", "_", "f", "a", "c", "t", "o", "r", "y", ".", "p", "y">>, <<"u", "t", "i", "l", "s", "/", "b", "a", "s", "e", "_", "p", "a", "g", "e", ".", "p", "y">>,
             <<"u", "t", "i", "l", "s", "/", "d", "a", "t", "a", "_", "r", "e", "a", "d", "e", "r", ".", "p", "y">>, <<"p", "a", "g", "e", "s", "/", "_", "_", "i", "n", "i", "t", "_", "_", ".", "p", "y">>, <<"t", "e", "s", "t", "s", "/", "_", "_", "i", "n", "i", "t", "_", "_", ".", "p", "y">> }
        |-> FileText]

\* project.pages.forEach(page => files.set(`pages/${...}.py`, ...)), from page k on
RECURSIVE WithPageFiles(_, _, _)
WithPageFiles(fs, proj, k) ==
    IF k > Len(proj.pages) THEN fs
    ELSE WithPageFiles(FileSet(fs, <<"p", "a", "g", "e", "s", "/">> \o convertTitleToSnake(proj.pages[k].name)
                                       \o <<".", "p", "y">>, PageFile(proj.pages[k])),
                       proj, k + 1)

\* The second forEach: a test file for each page that has tests, from page k on
RECURSIVE WithTestFiles(_, _, _)
WithTestFiles(fs, proj, k) ==
    IF k > Len(proj.pages) THEN fs
    ELSE LET pg == proj.pages[k]
             written == TestsFor(proj, pg)
         IN  WithTestFiles(IF written # <<>>
                           THEN FileSet(fs, <<"t", "e", "s", "t", "s", "/", "t", "e", "s", "t", "_">>
                                            \o convertTitleToSnake(shortPageName(pg.name))
                                            \o <<".", "p", "y">>,
                                        generateTestFile(written, <<pg>>))
                           ELSE fs,
                           proj, k + 1)

IsTestFile(path) == startsWith(path, <<"t", "e", "s", "t", "s", "/", "t", "e", "s", "t", "_">>)

\* The catch-all: test_main_flow.py when no test file was written
WithMainFlow(fs, proj) ==
    IF DOMAIN fs = {} \/ ~(\E path \in DOMAIN fs : IsTestFile(path))
    THEN FileSet(fs, <<"t", "e", "s", "t", "s", "/", "t", "e", "s", "t", "_", "m", "a", "i", "n", "_", "f", "l", "o", "w", ".", "p", "y">>, generateTestFile(proj.tests, proj.pages))
    ELSE fs

generatePyTestFramework(proj) ==
    WithMainFlow(WithTestFiles(WithPageFiles(FixedFiles, proj, 1), proj, 1), proj)

PreviewInit ==
    /\ ServiceIdle
    /\ AnalysisIdle
    /\ project \in PreviewProjects
    /\ activeFrameworkId = Null
    /\ frameworkName = <<>>
    /\ savedFrameworks = <<>>
    /\ aiUrls = << <<>> >>
    /\ isGenerating = FALSE
    /\ activeTab = "pages"
    /\ localStorage = Null
    /\ gen = NoRun
    /\ previewFiles = NoFiles

\* The preview tab is opened and the effect generates the files.
OpenPreview ==
    /\ activeTab # "preview"
    /\ activeTab' = "preview"
    /\ previewFiles' = generatePyTestFramework(project)
    /\ UNCHANGED <<project, activeFrameworkId, frameworkName, savedFrameworks, aiUrls,
                   isGenerating, localStorage, gen>>
    /\ UNCHANGED <<analysisVars, serviceVars>>

PreviewNext == OpenPreview

PreviewSpec == PreviewInit /\ [][PreviewNext]_vars
(***************************************************************************)
(* How the generated page objects evaluate a locator                       *)
(***************************************************************************)
\* The nodes a locator selects through the By.* strategy its kind maps to
\* in BasePage._convert_locator: By.ID, By.NAME and By.CLASS_NAME compare
\* the attribute, By.LINK_TEXT and By.PARTIAL_LINK_TEXT the rendered text
\* of a link, By.CSS_SELECTOR, By.TAG_NAME and By.XPATH evaluate the value.
LocatorMatches(d, loc) ==
    CASE loc.type = "id" ->
            { n \in NodesOf(d) : getAttribute(d[n], <<"i", "d">>) = loc.value.s }
      [] loc.type = "name" ->
            { n \in NodesOf(d) : getAttribute(d[n], <<"n", "a", "m", "e">>) = loc.value.s }
      [] loc.type = "linkText" ->
            { n \in NodesOf(d) : d[n].tag = <<"a">> /\ cleanText(textContent(d, n)) = loc.value.s }
      [] loc.type = "partialLinkText" ->
            { n \in NodesOf(d) :
                d[n].tag = <<"a">> /\ includes(cleanText(textContent(d, n)), loc.value.s) }
      [] loc.type = "css" ->
            IF QuotedValid(loc.value.val)
            THEN AttrSelectorMatches(d, loc.value.tag, loc.value.attr, loc.value.val)
            ELSE {}
      [] loc.type = "className" ->
            { n \in NodesOf(d) :
                loc.value.s \in Range(ClassTokens(getAttribute(d[n], <<"c", "l", "a", "s", "s">>))) }
      [] loc.type = "tagName" -> getElementsByTagName(d, loc.value.s)
      [] loc.type = "xpath" -> XPathMatches(d, loc.value)
      [] OTHER -> {}

(***************************************************************************)
(* Properties                                                              *)
(***************************************************************************)
LocatorKinds ==
    {"id", "name", "linkText", "partialLinkText", "css", "className", "tagName", "xpath"}

\* The position, in the order of the claim, of the strategy a locator is of.
TierOf(loc) ==
    CASE loc.type = "id" -> 1
      [] loc.type = "name" -> 2
      [] loc.type = "linkText" -> 3
      [] loc.type = "partialLinkText" -> 4
      [] loc.type = "css" -> 5
      [] loc.type = "className" -> 6
      [] loc.type = "tagName" -> 7
      [] loc.type = "xpath" /\ loc.value.form \in {"textEq", "indexed"} -> 8
      [] loc.type = "xpath" /\ loc.value.form \in {"following", "within"} -> 9
      [] OTHER -> 10

TierScores(t) ==
    CASE t = 1 -> {100} [] t = 2 -> {95} [] t = 3 -> {90} [] t = 4 -> {85}
      [] t = 5 -> {80} [] t = 6 -> {75} [] t = 7 -> {70} [] t = 8 -> {60, 55}
      [] t = 9 -> {50} [] OTHER -> {10}

CssAttributes ==
    << <<"d", "a", "t", "a", "-", "t", "e", "s", "t", "i", "d">>, <<"d", "a", "t", "a", "-", "t", "e", "s", "t">>, <<"d", "a", "t", "a", "-", "c", "y">>, <<"p", "l", "a", "c", "e", "h", "o", "l", "d", "e", "r">>, <<"a", "r", "i", "a", "-", "l", "a", "b", "e", "l">>,
       <<"t", "i", "t", "l", "e">>, <<"a", "l", "t">> >>

CssAttributeViable(d, n, k) ==
    LET val == getAttribute(d[n], CssAttributes[k])
    IN  val # <<>> /\ QuotedValid(val)
        /\ Cardinality(AttrSelectorMatches(d, d[n].tag, CssAttributes[k], val)) = 1

\* Whether strategy t, taken by itself, yields a locator for node n.
Viable(d, n, t) ==
    LET id == getAttribute(d[n], <<"i", "d">>)
        name == getAttribute(d[n], <<"n", "a", "m", "e">>)
        text == trim(CollapseSpace(textContent(d, n)))
        tokens == ClassTokens(getAttribute(d[n], <<"c", "l", "a", "s", "s">>))
    IN  CASE t = 1 -> /\ id # <<>>
                      /\ \A i \in DOMAIN id : ~IsDigit(id[i])
                      /\ ~includes(id, <<"e", "x", "t">>) /\ ~includes(id, <<"g", "e", "n">>)
                      /\ IdSelectorValid(id) /\ Cardinality(IdSelectorMatches(d, id)) = 1
          [] t = 2 -> name # <<>> /\ QuotedValid(name)
                      /\ Cardinality(NameSelectorMatches(d, name)) = 1
          [] t = 3 -> d[n].tag = <<"a">> /\ Len(text) \in 1..59 /\ LiteralValid(text)
                      /\ Cardinality(TextEqMatches(d, <<"a">>, text)) = 1
          [] t = 4 -> d[n].tag = <<"a">> /\ Len(text) > 5
                      /\ LiteralValid(substring(text, 0, 15))
                      /\ Cardinality(ContainsTextMatches(d, substring(text, 0, 15))) = 1
          [] t = 5 -> \E k \in DOMAIN CssAttributes : CssAttributeViable(d, n, k)
          [] t = 6 -> \E k \in DOMAIN tokens :
                          /\ tokens[k] \notin NoiseClasses
                          /\ ClassSelectorValid(tokens[k])
                          /\ Cardinality(ClassSelectorMatches(d, tokens[k])) = 1
          [] t = 7 -> Cardinality(getElementsByTagName(d, d[n].tag)) = 1
          [] t = 8 -> Len(text) \in 3..59 /\ LiteralValid(text)
                      /\ n \in TextEqMatches(d, d[n].tag, text)
          [] t = 9 -> generateRelativeXPath(d, n).score # 0
          [] OTHER -> TRUE

\* C1: every locator generateLocator returned is of the first strategy, in
\* the order id, name, linkText, partialLinkText, attribute css (its
\* attributes in their order), className, tagName, text XPath, relative
\* XPath, absolute XPath, that was viable for the element, with the fixed
\* score of that strategy; so no viable strategy has a higher score.
C1_FirstViableStrategy ==
    \A k \in DOMAIN locs :
        LET n == locs[k].node
            loc == locs[k].loc
            t == TierOf(loc)
        IN  /\ loc.score \in TierScores(t)
            /\ Viable(doc, n, t)
            /\ \A u \in 1..(t - 1) : ~Viable(doc, n, u)
            /\ t = 5 =>
                 \E j \in DOMAIN CssAttributes :
                     /\ loc.value.attr = CssAttributes[j]
                     /\ CssAttributeViable(doc, n, j)
                     /\ \A i \in 1..(j - 1) : ~CssAttributeViable(doc, n, i)
            /\ t = 8 => (loc.score = 55 <=> loc.value.form = "indexed")
            /\ \A u \in 1..10 :
                 Viable(doc, n, u) => \A s \in TierScores(u) : loc.score >= s \/ u = t

\* A locator of the css strategy on an element that carries two of the attributes.
C1_Witness ==
    \E k \in DOMAIN locs :
        /\ locs[k].loc.type = "css"
        /\ getAttribute(doc[locs[k].node], <<"p", "l", "a", "c", "e", "h", "o", "l", "d", "e", "r">>) # <<>>
        /\ locs[k].loc.value.attr = <<"d", "a", "t", "a", "-", "t", "e", "s", "t">>

\* C2: every returned locator of a strategy other than the absolute path
\* (score above 10), evaluated by its kind, selects exactly one node.
C2_Original ==
    \A k \in DOMAIN locs :
        locs[k].loc.score > 10 => Cardinality(LocatorMatches(doc, locs[k].loc)) = 1

\* C3: every returned absolute path (score 10) selects exactly one node.
C3_Original ==
    \A k \in DOMAIN locs :
        locs[k].loc.score = 10 => Cardinality(XPathMatches(doc, locs[k].loc.value)) = 1

\* C4: no derived selector makes the analysis throw.
C4_Original == pc # "thrown"

\* The id of node n is non-empty, has no digit, neither "ext" nor "gen", and
\* no other node carries it.
PlainUniqueId(d, n) ==
    LET id == getAttribute(d[n], <<"i", "d">>)
    IN  /\ id # <<>>
        /\ \A i \in DOMAIN id : ~IsDigit(id[i])
        /\ ~includes(id, <<"e", "x", "t">>) /\ ~includes(id, <<"g", "e", "n">>)
        /\ \A m \in NodesOf(d) : m # n => getAttribute(d[m], <<"i", "d">>) # id

\* C5: an element with a plain id no other node carries is located by that
\* id with score 100.
C5_Original ==
    \A k \in DOMAIN locs :
        PlainUniqueId(doc, locs[k].node) =>
            locs[k].loc = Locator("id", Str(getAttribute(doc[locs[k].node], <<"i", "d">>)), 100)

\* C6: generateLocator returns, for every element it is called on, one
\* locator of a known kind with a non-empty value.
C6_Original ==
    /\ pc # "thrown"
    /\ \A k \in DOMAIN locs :
           locs[k].loc.type \in LocatorKinds /\ Len(Render(locs[k].loc.value)) > 0

\* C7 as stated: the login document yields one test, the login flow with
\* four steps.
C7_Original ==
    (doc = LoginDoc /\ pc = "done") =>
        /\ Len(tests) = 1
        /\ endsWith(tests[1].name, <<"_", "l", "o", "g", "i", "n", "_", "f", "l", "o", "w">>)
        /\ Len(tests[1].steps) = 4

\* C8: in the login document the username input is located by id (100), the
\* password input, its id rejected as generated, by name "password" (95),
\* and the button by id (100).
C8_LoginDocLocators ==
    doc = LoginDoc =>
        \A k \in DOMAIN locs :
            locs[k].loc = << Locator("id", Str(<<"u", "s", "e", "r", "n", "a", "m", "e">>), 100),
                             Locator("name", Str(<<"p", "a", "s", "s", "w", "o", "r", "d">>), 95),
                             Locator("id", Str(<<"s", "u", "b", "m", "i", "t">>), 100) >>[k]

C8_Witness == doc = LoginDoc /\ Len(locs) = 3

\* //label[normalize-space()='Email']/following-sibling::input
EmailAnchorXPath ==
    [form |-> "following", atag |-> <<"l", "a", "b", "e", "l">>, text |-> <<"E", "m", "a", "i", "l">>, tag |-> <<"i", "n", "p", "u", "t">>]

\* Node n is an input without attributes right after a label "Email".
AfterEmailLabel(d, n) ==
    /\ n > 1
    /\ d[n].tag = <<"i", "n", "p", "u", "t">> /\ DOMAIN d[n].attrs = {}
    /\ d[n - 1].tag = <<"l", "a", "b", "e", "l">> /\ d[n - 1].parent = d[n].parent
    /\ d[n - 1].text = <<"E", "m", "a", "i", "l">>

\* C9 as stated: the input of the label/input pair is located by the
\* anchored XPath with score 95.
C9_Original ==
    doc = LabelDoc =>
        \A k \in DOMAIN locs : locs[k].loc = Locator("xpath", EmailAnchorXPath, 95)

\* C9 amended: for an input without attributes right after a label "Email",
\* generateLocator returns tagName "input" with score 70 when it is the only
\* input of the document; otherwise, when no other label reads "Email" and
\* the label has no other following input sibling, it returns the XPath
\* anchored on the label with the score 50 of the relative strategy, while
\* generateRelativeXPath itself gives that XPath the score 95.
C9_Amended ==
    \A k \in DOMAIN locs :
        LET n == locs[k].node
        IN  AfterEmailLabel(doc, n) =>
                IF Cardinality(getElementsByTagName(doc, <<"i", "n", "p", "u", "t">>)) = 1
                THEN locs[k].loc = Locator("tagName", Str(<<"i", "n", "p", "u", "t">>), 70)
                ELSE (/\ Cardinality(TextEqMatches(doc, <<"l", "a", "b", "e", "l">>, <<"E", "m", "a", "i", "l">>)) = 1
                      /\ Cardinality({ m \in NodesOf(doc) :
                                         /\ doc[m].tag = <<"i", "n", "p", "u", "t">>
                                         /\ doc[m].parent = doc[n].parent
                                         /\ m > n - 1 }) = 1)
                     => /\ locs[k].loc = Locator("xpath", EmailAnchorXPath, 50)
                        /\ generateRelativeXPath(doc, n) =
                               [value |-> EmailAnchorXPath, score |-> 95]

C9_Witness ==
    \E k \in DOMAIN locs :
        /\ AfterEmailLabel(doc, locs[k].node)
        /\ locs[k].loc = Locator("xpath", EmailAnchorXPath, 50)

\* The page name the title alone gives.
TitlePageName(t) ==
    LET raw == IF t # <<>> /\ TitleName(t) # <<>> THEN TitleName(t) ELSE <<"H", "o", "m", "e", "P", "a", "g", "e">>
        capped == IF Len(raw) > 20 THEN substring(raw, 0, 20) ELSE raw
    IN  IF endsWith(capped, <<"P", "a", "g", "e">>) THEN capped ELSE capped \o <<"P", "a", "g", "e">>

\* C10 as stated: for https://shop.example.com/products/42 the page name is
\* the one the title gives.
C10_Original ==
    (url = ShopUrl /\ pc # "naming") => derivedName = TitlePageName(title)

\* C10 amended: for https://shop.example.com/products/42 the segment 42 is
\* filtered out and the page is named ProductsPage after the remaining
\* segment "products", whatever the title; the title names the page only
\* when no segment remains, as for https://app.io/42.
C10_Amended ==
    /\ (url = ShopUrl /\ pc # "naming") => derivedName = <<"P", "r", "o", "d", "u", "c", "t", "s", "P", "a", "g", "e">>
    /\ (url = <<"h", "t", "t", "p", "s", ":", "/", "/", "a", "p", "p", ".", "i", "o", "/", "4", "2">> /\ pc # "naming") => derivedName = TitlePageName(title)

C10_Witness == url = ShopUrl /\ pc = "done" /\ title = <<"M", "y", " ", "S", "h", "o", "p", " ", "-", " ", "B", "e", "s", "t", " ", "d", "e", "a", "l", "s">>


\* An element whose only attribute is class="btn".
BtnOnly(el) == DOMAIN el.attrs = { <<"c", "l", "a", "s", "s">> } /\ el.attrs[<<"c", "l", "a", "s", "s">>] = <<"b", "t", "n">>

\* Node n is one of the two buttons of the document, both with class="btn"
\* as their only attribute, and the visible texts of the two differ.
OneOfTwoBtnButtons(d, n) ==
    LET buttons == getElementsByTagName(d, <<"b", "u", "t", "t", "o", "n">>)
    IN  /\ n \in buttons
        /\ Cardinality(buttons) = 2
        /\ \A m \in buttons : BtnOnly(d[m])
        /\ \A m \in buttons : m # n => cleanText(textContent(d, m)) # cleanText(textContent(d, n))

C13_Original ==
    (pc = "done" /\ earlier.called) =>
        /\ earlier.pageName = derivedName
        /\ earlier.elements = elements
        /\ earlier.tests = tests

\* The positions in locs of the nodes that were the first to generate their name.
FirstOfName ==
    SelectSeq([k \in DOMAIN locs |-> k],
              LAMBDA k : \A j \in 1..(k - 1) : locs[j].name # locs[k].name)

\* The interactive nodes that are no hidden inputs, in document order.
VisibleNodes(d) == SelectSeq(InteractiveNodes(d), LAMBDA n : ~IsHiddenInput(d[n]))

\* C14: no two elements of the page have the same name; the elements are,
\* in document order, the interactive non-hidden nodes that were the first
\* to generate their name, each with the locator generated for that node;
\* every later node with the same name is dropped.
C14_FirstOccurrenceWins ==
    /\ \A i, j \in DOMAIN elements : i # j => elements[i].name # elements[j].name
    /\ \A k \in DOMAIN locs : locs[k].node = VisibleNodes(doc)[k]
    /\ Len(elements) = Len(FirstOfName)
    /\ \A i \in DOMAIN elements :
           LET l == locs[FirstOfName[i]]
           IN  /\ elements[i].name = l.name
               /\ elements[i].locatorType = l.loc.type
               /\ Render(elements[i].locatorValue) = Render(l.loc.value)
               /\ elements[i].tag = doc[l.node].tag

\* A page returned after a node with an already generated name was dropped.
C14_Witness ==
    /\ pc = "done"
    /\ Len(elements) = 2 /\ Len(locs) = 3
    /\ locs[3].name = locs[1].name

\* Letters and digits only, the first one no digit.
IsIdentifier(s) ==
    /\ s # <<>>
    /\ \A i \in DOMAIN s : IsAlnum(s[i])
    /\ ~IsDigit(s[1])

\* C15: the derived page name is identifier-safe and ends with Page.
C15_Original ==
    pc # "naming" => IsIdentifier(derivedName) /\ endsWith(derivedName, <<"P", "a", "g", "e">>)

\* The base name of the naming path taken for url u and title t.
BaseName(u, t) ==
    LET parsed == ParseUrl(u)
        segs == MeaningfulSegments(parsed.pathname)
        raw == IF ~parsed.ok THEN KeepAlnum(t)
               ELSE IF Len(segs) > 0 THEN SegmentName(segs[Len(segs)])
               ELSE IF t # <<>> THEN TitleName(t)
               ELSE <<>>
    IN  IF raw = <<>> THEN <<"H", "o", "m", "e">> ELSE raw

\* C16: on every naming path the page name is the base name cut to at most
\* 20 characters (to 15 or to 20 when it is longer), followed by Page
\* unless the cut base ends with Page already; so it has at most 24
\* characters.
C16_Original ==
    pc # "naming" =>
        /\ Len(derivedName) <= 24
        /\ \E n \in {15, 20} :
               LET base == BaseName(url, title)
                   cut == IF Len(base) > n THEN substring(base, 0, n) ELSE base
               IN  derivedName = IF endsWith(cut, <<"P", "a", "g", "e">>) THEN cut ELSE cut \o <<"P", "a", "g", "e">>

\* The positions of the elements whose name contains one of the words.
Named(els, words) == { k \in DOMAIN els : \E w \in words : includes(els[k].name, w) }

\* The name of the first element whose name contains one of the words.
FirstNamed(els, words) ==
    els[CHOOSE k \in Named(els, words) : \A j \in Named(els, words) : k <= j].name

UserWords == { <<"u", "s", "e", "r">>, <<"e", "m", "a", "i", "l">>, <<"l", "o", "g", "i", "n">> }

PassWords == { <<"p", "a", "s", "s">> }

SubmitWords == { <<"s", "u", "b", "m", "i", "t">>, <<"l", "o", "g", "i", "n">>, <<"s", "i", "g", "n", "_", "i", "n">> }

SearchWords == { <<"s", "e", "a", "r", "c", "h">>, <<"q", "u", "e", "r", "y">> }

LoginDetected(els) ==
    Named(els, UserWords) # {} /\ Named(els, PassWords) # {} /\ Named(els, SubmitWords) # {}

SearchDetected(els) == Named(els, SearchWords) # {}

\* The positions of the tests of one kind.
TestsOfKind(suffix) == { i \in DOMAIN tests : endsWith(tests[i].name, suffix) }

\* C17: a login-flow test is among the returned tests if and only if some
\* element name contains user, email or login, some name contains pass and
\* some name contains submit, login or sign_in; its steps are input of
\* standard_user into the first username-like element, input of
\* secret_sauce into the first password-like one, click on the first
\* submit-like one, assert_visible of dashboard.
C17_LoginFlow ==
    pc = "done" =>
        /\ TestsOfKind(<<"_", "l", "o", "g", "i", "n", "_", "f", "l", "o", "w">>) # {} <=> LoginDetected(elements)
        /\ \A i \in TestsOfKind(<<"_", "l", "o", "g", "i", "n", "_", "f", "l", "o", "w">>) :
               /\ tests[i].name = <<"t", "e", "s", "t", "_">> \o snakePage(derivedName) \o <<"_", "l", "o", "g", "i", "n", "_", "f", "l", "o", "w">>
               /\ tests[i].steps =
                      << Step("input", "standard_user",
                              <<"E", "n", "t", "e", "r", " ", "u", "s", "e", "r", "n", "a", "m", "e", " ", "i", "n", "t", "o", " ">> \o FirstNamed(elements, UserWords)),
                         Step("input", "secret_sauce",
                              <<"E", "n", "t", "e", "r", " ", "p", "a", "s", "s", "w", "o", "r", "d", " ", "i", "n", "t", "o", " ">> \o FirstNamed(elements, PassWords)),
                         Step("click", "", <<"C", "l", "i", "c", "k", " ">> \o FirstNamed(elements, SubmitWords)),
                         Step("assert_visible", "dashboard",
                              <<"V", "e", "r", "i", "f", "y", " ", "s", "u", "c", "c", "e", "s", "s", "f", "u", "l", " ", "l", "o", "g", "i", "n", " ", "l", "o", "c", "a", "t", "i", "o", "n">>) >>

C17_Witness ==
    /\ doc = LoginFlowDoc /\ pc = "done"
    /\ Len(tests) = 1 /\ Len(tests[1].steps) = 4
    /\ endsWith(tests[1].name, <<"_", "l", "o", "g", "i", "n", "_", "f", "l", "o", "w">>)

\* C18: the basic_interactions test is among the returned tests if and
\* only if neither the login nor the search flow is detected and there is
\* an element; it has min(4, number of elements) steps, the k-th on the
\* k-th element: input of test_data when the name of the element contains
\* input, click otherwise.
C18_BasicInteractions ==
    pc = "done" =>
        /\ TestsOfKind(<<"_", "b", "a", "s", "i", "c", "_", "i", "n", "t", "e", "r", "a", "c", "t", "i", "o", "n", "s">>) # {}
               <=> (~LoginDetected(elements) /\ ~SearchDetected(elements) /\ Len(elements) > 0)
        /\ \A i \in TestsOfKind(<<"_", "b", "a", "s", "i", "c", "_", "i", "n", "t", "e", "r", "a", "c", "t", "i", "o", "n", "s">>) :
               /\ Len(tests[i].steps) = Min(4, Len(elements))
               /\ \A k \in DOMAIN tests[i].steps :
                      tests[i].steps[k] =
                          IF includes(elements[k].name, <<"i", "n", "p", "u", "t">>)
                          THEN Step("input", "test_data",
                                    <<"I", "n", "t", "e", "r", "a", "c", "t", " ", "w", "i", "t", "h", " ">> \o elements[k].name)
                          ELSE Step("click", "undefined",
                                    <<"I", "n", "t", "e", "r", "a", "c", "t", " ", "w", "i", "t", "h", " ">> \o elements[k].name)

\* Five elements, four steps.
C18_Witness ==
    /\ doc = FiveElementsDoc /\ pc = "done"
    /\ Len(elements) = 5 /\ Len(tests) = 1 /\ Len(tests[1].steps) = 4

\* C19: a search test (input, click with value Enter, assert_visible of
\* results) is among the returned tests if and only if some element name
\* contains search or query, whether or not the login flow is detected;
\* when both are detected the tests are the login test and then the search
\* test; and there is at most one test of each kind.
C19_AdditiveFlows ==
    pc = "done" =>
        /\ TestsOfKind(<<"_", "s", "e", "a", "r", "c", "h">>) # {} <=> SearchDetected(elements)
        /\ \A i \in TestsOfKind(<<"_", "s", "e", "a", "r", "c", "h">>) :
               tests[i].steps =
                   << Step("input", "Test Item",
                           <<"T", "y", "p", "e", " ", "s", "e", "a", "r", "c", "h", " ", "q", "u", "e", "r", "y", " ", "i", "n", " ">> \o FirstNamed(elements, SearchWords)),
                      Step("click", "Enter", <<"S", "u", "b", "m", "i", "t", " ", "s", "e", "a", "r", "c", "h">>),
                      Step("assert_visible", "results", <<"V", "e", "r", "i", "f", "y", " ", "r", "e", "s", "u", "l", "t", "s", " ", "a", "p", "p", "e", "a", "r">>) >>
        /\ (LoginDetected(elements) /\ SearchDetected(elements)) =>
               /\ Len(tests) = 2
               /\ endsWith(tests[1].name, <<"_", "l", "o", "g", "i", "n", "_", "f", "l", "o", "w">>)
               /\ endsWith(tests[2].name, <<"_", "s", "e", "a", "r", "c", "h">>)
        /\ \A suffix \in { <<"_", "l", "o", "g", "i", "n", "_", "f", "l", "o", "w">>, <<"_", "s", "e", "a", "r", "c", "h">>, <<"_", "b", "a", "s", "i", "c", "_", "i", "n", "t", "e", "r", "a", "c", "t", "i", "o", "n", "s">> } :
               Cardinality(TestsOfKind(suffix)) <= 1

C19_Witness ==
    /\ doc = LoginSearchDoc /\ pc = "done"
    /\ Len(tests) = 2 /\ Len(tests[2].steps) = 3

\* C20: an <a> element never gets a text XPath, exact (score 60) or indexed
\* (score 55).
C20_Original ==
    \A k \in DOMAIN locs :
        doc[locs[k].node].tag = <<"a">> => locs[k].loc.value.form \notin {"textEq", "indexed"}

\* C22: a document without interactive element other than hidden inputs
\* makes the analysis return, not throw, with no element and no test.
C22_NoInteractiveElements ==
    VisibleNodes(doc) = <<>> =>
        /\ pc # "thrown"
        /\ elements = <<>> /\ locs = <<>>
        /\ pc = "done" => tests = <<>>

C22_Witness == doc = OnlyHiddenDoc /\ pc = "done" /\ idx = 2

\* C23: with a source URL that does not parse the analysis does not throw
\* on the URL: the page is named after the title, letters and digits only,
\* cut to 15 characters, with the suffix Page, or HomePage without title,
\* and elements and tests are inferred as for a URL that parses.
C23_UnparseableUrl ==
    ~ParseUrl(url).ok =>
        /\ pc # "thrown"
        /\ pc # "naming" =>
               derivedName =
                   IF title = <<>> THEN <<"H", "o", "m", "e", "P", "a", "g", "e">>
                   ELSE SubSeq(KeepAlnum(title), 1, Min(15, Len(KeepAlnum(title)))) \o <<"P", "a", "g", "e">>
        /\ (doc = LoginDoc /\ pc = "done") =>
               /\ [i \in DOMAIN elements |-> elements[i].name] =
                      << <<"u", "s", "e", "r", "n", "a", "m", "e", "_", "i", "n", "p", "u", "t">>, <<"e", "x", "t", "_", "g", "e", "n", "5", "5", "_", "i", "n", "p", "u", "t">>, <<"s", "u", "b", "m", "i", "t", "_", "b", "u", "t", "t", "o", "n">> >>
               /\ Len(tests) = 1
               /\ tests[1].name =
                      <<"t", "e", "s", "t", "_">> \o snakePage(derivedName) \o <<"_", "b", "a", "s", "i", "c", "_", "i", "n", "t", "e", "r", "a", "c", "t", "i", "o", "n", "s">>

C23_Witness ==
    /\ url = <<"n", "o", "t", " ", "a", " ", "u", "r", "l">> /\ title = <<"I", "n", "t", "e", "r", "n", "a", "t", "i", "o", "n", "a", "l", "i", "z", "a", "t", "i", "o", "n", " ", "S", "e", "t", "t", "i", "n", "g", "s">>
    /\ pc = "done" /\ Len(elements) = 3
    /\ derivedName = <<"I", "n", "t", "e", "r", "n", "a", "t", "i", "o", "n", "a", "l", "i", "z", "P", "a", "g", "e">>

\* The nodes counted by the uniqueness query that made generateLocator
\* accept the strategy of the locator it returned for node n.
UniquenessMatches(d, n, loc) ==
    CASE loc.type = "id" -> IdSelectorMatches(d, loc.value.s)
      [] loc.type = "name" -> NameSelectorMatches(d, loc.value.s)
      [] loc.type = "linkText" -> TextEqMatches(d, <<"a">>, loc.value.s)
      [] loc.type = "partialLinkText" -> ContainsTextMatches(d, loc.value.s)
      [] loc.type = "css" ->
            AttrSelectorMatches(d, loc.value.tag, loc.value.attr, loc.value.val)
      [] loc.type = "className" -> ClassSelectorMatches(d, loc.value.s)
      [] loc.type = "tagName" -> getElementsByTagName(d, loc.value.s)
      [] OTHER -> XPathMatches(d, loc.value)

\* C25: when a strategy is accepted because its uniqueness query counted
\* one node, that node is the element being located.
C25_Original ==
    \A k \in DOMAIN locs :
        LET n == locs[k].node
            loc == locs[k].loc
        IN  (loc.score > 10 /\ loc.value.form # "indexed") =>
                UniquenessMatches(doc, n, loc) = {n}

\* An id the id strategy rejects as generated.
GeneratedId(id) ==
    id # <<>> /\ ((\E i \in DOMAIN id : IsDigit(id[i]))
                  \/ includes(id, <<"e", "x", "t">>) \/ includes(id, <<"g", "e", "n">>))

\* C26: no returned locator value refers to an id that the id strategy
\* rejects as generated.
C26_Original ==
    \A k \in DOMAIN locs :
        LET v == locs[k].loc.value
        IN  /\ locs[k].loc.type = "id" => ~GeneratedId(v.s)
            /\ v.form = "abs" => ~GeneratedId(v.id)

(***************************************************************************)
(* Properties of the framework routes                                      *)
(***************************************************************************)
UnnamedFramework == <<"U", "n", "n", "a", "m", "e", "d", " ", "F", "r", "a", "m", "e", "w", "o", "r", "k">>

\* The ids of the frameworks a getAllFrameworks body lists
ListedIds(body) == { body[k].id : k \in DOMAIN body }

\* A framework leaves the table only by a deleteFramework answered 200.
LeavesOnlyByDelete ==
    \A id \in FrameworkIds :
        (Exists(prisma, id) /\ ~Exists(prisma', id)) =>
            (res'.op = "deleteFramework" /\ res'.status = 200 /\ res'.id = id)

\* An id already assigned that has no row never has a row again.
DeletedStaysDeleted ==
    \A id \in FrameworkIds :
        (id < nextId /\ ~Exists(prisma, id)) => ~Exists(prisma', id)

\* The responses of getFrameworkById, getAllFrameworks and deleteFramework
LifecycleReads ==
    /\ res.op = "getFrameworkById" =>
          IF Exists(prisma, res.id)
          THEN /\ res.status = 200
               /\ res.body.id = res.id
               /\ res.body.name = prisma.framework[res.id].name
          ELSE res.status = 404
    /\ res.op = "getAllFrameworks" =>
          res.status = 200 /\ ListedIds(res.body) = DOMAIN prisma.framework
    /\ (res.op = "deleteFramework" /\ res.status = 200) => ~Exists(prisma, res.id)

\* C24 as stated: framework lifecycle over the REST API.  A successful create
\* answers 201 with a server-assigned id and the given name; from then on
\* every getFrameworkById of the id answers 200 with the id and the current
\* name, getAllFrameworks lists the framework and an update answers 200 with
\* the new name, until the framework is deleted; after a successful delete
\* getFrameworkById of the id answers 404.
C24_Original ==
    /\ [](LifecycleReads)
    /\ []((res.op = "createFramework" /\ res.status = 201) =>
             /\ Exists(prisma, res.id)
             /\ res.body.id = res.id
             /\ res.body.name = res.name)
    /\ []((res.op = "updateFramework" /\ Exists(prisma, res.id)) =>
             res.status = 200 /\ res.body.name = res.name)
    /\ [][LeavesOnlyByDelete /\ DeletedStaysDeleted]_vars

\* C24 amended: the same lifecycle, where the name answered by create and
\* update is the given name, or "Unnamed Framework" when the given name is
\* empty, and an update of an existing framework answers 200 when every page,
\* element and test of its project has the required names (500, the
\* framework still being found by its id, otherwise).
C24_Amended ==
    /\ [](LifecycleReads)
    /\ []((res.op = "createFramework" /\ res.status = 201) =>
             /\ Exists(prisma, res.id)
             /\ res.body.id = res.id
             /\ res.body.name = OrElse(res.name, UnnamedFramework))
    /\ []((res.op = "updateFramework" /\ Exists(prisma, res.id)) =>
             IF RequiredGiven(res.project)
             THEN res.status = 200 /\ res.body.name = OrElse(res.name, UnnamedFramework)
             ELSE res.status = 500)
    /\ [][LeavesOnlyByDelete /\ DeletedStaysDeleted]_vars

\* One framework was created, updated and deleted, and is then asked for.
C24_Witness ==
    /\ res.op = "getFrameworkById"
    /\ res.status = 404
    /\ res.id = 1
    /\ nextId = 2
    /\ now = 2

\* C27 as stated: updateFramework is all-or-nothing.  When an update ends in
\* 500, what is stored for the id (the framework with its version, its pages
\* with their elements, its tests with their steps) is what was stored when
\* the request arrived; and no getFrameworkById answers a framework whose
\* pages or tests are fewer than its totalPages and totalTests.
C27_Original ==
    /\ (res.op = "updateFramework" /\ res.status = 500 /\ upd.pc = "idle") =>
          Stored(prisma, res.id) = res.before
    /\ (res.op = "getFrameworkById" /\ res.status = 200) =>
          /\ Len(res.body.pages) = res.body.totalPages
          /\ Len(res.body.tests) = res.body.totalTests

\* The listed parts of two projects are the same.
SameConfig(a, b) ==
    /\ a.config.projectName = b.config.projectName
    /\ a.config.baseUrl = b.config.baseUrl
    /\ a.config.browser = b.config.browser
    /\ a.config.headless = b.config.headless

SamePages(a, b) ==
    /\ Len(a.pages) = Len(b.pages)
    /\ \A k \in DOMAIN a.pages :
          /\ a.pages[k].name = b.pages[k].name
          /\ Len(a.pages[k].elements) = Len(b.pages[k].elements)
          /\ \A j \in DOMAIN a.pages[k].elements :
                /\ a.pages[k].elements[j].name = b.pages[k].elements[j].name
                /\ a.pages[k].elements[j].locatorType = b.pages[k].elements[j].locatorType
                /\ a.pages[k].elements[j].locatorValue = b.pages[k].elements[j].locatorValue

SameTests(a, b) ==
    /\ Len(a.tests) = Len(b.tests)
    /\ \A k \in DOMAIN a.tests :
          /\ a.tests[k].name = b.tests[k].name
          /\ Len(a.tests[k].steps) = Len(b.tests[k].steps)
          /\ \A j \in DOMAIN a.tests[k].steps :
                /\ a.tests[k].steps[j].action = b.tests[k].steps[j].action
                /\ a.tests[k].steps[j].description = b.tests[k].steps[j].description

\* C28 as stated: saving and loading is a round trip.  After a createFramework
\* or an updateFramework that succeeded, getFrameworkById and
\* mapFrameworkToProject yield the config, the pages with their elements and
\* the tests with their steps of the project that was sent.
C28_Original ==
    (/\ res.op \in {"createFramework", "updateFramework"}
     /\ res.status \in {200, 201}
     /\ upd.pc = "idle") =>
        LET loaded == mapFrameworkToProject(FindUnique(prisma, res.id))
        IN  /\ SameConfig(loaded, res.project)
            /\ SamePages(loaded, res.project)
            /\ SameTests(loaded, res.project)

(***************************************************************************)
(* Properties of the generate run                                          *)
(***************************************************************************)
\* The urls the run has fetched so far, in the order of the fetches
LoggedUrls(g) == [k \in DOMAIN g.log |-> g.log[k].url]

\* The pages and the tests of the urls that succeeded, in the order of the log
RECURSIVE SucceededPages(_)
SucceededPages(log) ==
    IF log = <<>> THEN <<>>
    ELSE (IF Head(log).outcome = "ok" THEN analysisResult(Head(log).url).pages ELSE <<>>)
         \o SucceededPages(Tail(log))

RECURSIVE SucceededTests(_)
SucceededTests(log) ==
    IF log = <<>> THEN <<>>
    ELSE (IF Head(log).outcome = "ok" THEN analysisResult(Head(log).url).tests ELSE <<>>)
         \o SucceededTests(Tail(log))

\* s ends with t
IsSuffix(t, s) == Len(t) <= Len(s) /\ SubSeq(s, Len(s) - Len(t) + 1, Len(s)) = t

RunEnded == gen.pc = "idle" /\ gen.runs > 0

\* C21: per-url isolation.  A url whose fetch or analysis throws does not end
\* the run: the urls are fetched one after the other in list order, whatever
\* the outcome of the earlier ones, and when the run ends every url of the
\* list was processed and the pages and tests of every url that succeeded
\* are in the resulting project, in list order.
C21_PerUrlIsolation ==
    /\ gen.pc = "loop" =>
          /\ gen.i = Len(gen.log) + 1
          /\ LoggedUrls(gen) = SubSeq(gen.validUrls, 1, gen.i - 1)
    /\ RunEnded =>
          /\ LoggedUrls(gen) = gen.validUrls
          /\ IsSuffix(SucceededPages(gen.log), gen.newProject.pages)
          /\ IsSuffix(SucceededTests(gen.log), gen.newProject.tests)

\* Two urls, the first failed and the second succeeded.
C21_Witness ==
    /\ RunEnded
    /\ Len(gen.log) = 2
    /\ gen.log[1].outcome = "fetchFailed"
    /\ gen.log[2].outcome = "ok"
    /\ gen.newProject.pages = <<SearchPageDef>>

AllFailed(log) == log # <<>> /\ \A k \in DOMAIN log : log[k].outcome # "ok"

\* C29 as stated: a run in which every url fails leaves the pages and tests
\* of the project as they were before the run, with or without an active
\* framework, and persists no project with fewer pages or tests than before.
C29_Original ==
    (RunEnded /\ AllFailed(gen.log)) =>
        /\ gen.newProject.pages = gen.project.pages
        /\ gen.newProject.tests = gen.project.tests
        /\ gen.saved # Null =>
              /\ Len(prisma.page[gen.saved]) >= Len(gen.project.pages)
              /\ Len(prisma.test[gen.saved]) >= Len(gen.project.tests)

(***************************************************************************)
(* Properties of the file generator                                        *)
(***************************************************************************)
\* The test is a function of some generated tests/test_*.py file.
Written(fs, t) ==
    \E path \in DOMAIN fs :
        IsTestFile(path) /\ \E k \in DOMAIN fs[path].tests : fs[path].tests[k] = t.name

\* C30 as stated: generatePyTestFramework loses no test.  Every test case of
\* the project is written into at least one generated tests/test_*.py file,
\* also a test that mentions no page when the project has several pages and
\* another test matched one; and at least one tests/test_*.py file exists.
C30_Original ==
    activeTab = "preview" =>
        /\ \A k \in DOMAIN project.tests : Written(previewFiles, project.tests[k])
        /\ \E path \in DOMAIN previewFiles : IsTestFile(path)
====
